---- MODULE Spec2Model ----
(***************************************************************************)
(* Model of the sheepapp scoring pipeline: hard filters, trait             *)
(* standardisation, category/composite scoring, ranking and the scoring    *)
(* engine that chains them.                                                *)
(*                                                                         *)
(* A pandas DataFrame is a record [cols, idx, cell]: the set of column     *)
(* names, the set of row labels (animals) and cell[a][c] for every row a   *)
(* and column c.  A cell is NaN (the empty sequence) or <<v>> with v an    *)
(* integer, a string (sex, cull reasons) or a boolean (flags).  Weights,   *)
(* micron and rates are kept in tenths (2.0 kg is 20), so the comparisons  *)
(* of the code are exact integer comparisons.                              *)
(***************************************************************************)
EXTENDS Integers, Sequences, FiniteSets, TLC

VARIABLES
    df,            \* the record set handed to the component under study
    config,        \* the AnalysisConfig in use
    edits,         \* number of cells / columns changed while building df
    stage,         \* "input" while df is being built, "done" after the run
    filtered,      \* (filtered_df, filter_results) of apply_hard_filters
    scored,        \* the DataFrame calculate_scores returns
    kwargs,        \* the arguments of a pending AnalysisConfig(...) call
    raised,        \* the exception the last call raised, "" if none
    method,        \* DataStandardizer.method
    standardized,  \* the DataFrame standardize_data returns
    engines,       \* scoring_results of every ScoringEngine
    returned,      \* the results score_animals returned, call by call
    candidates,    \* the DataFrame identify_cull_candidates returns
    grouped,       \* the DataFrame create_contemporary_groups returns
    flagged,       \* (filtered_df, soft_filter_results) of apply_soft_filters
    called,        \* the outcomes of the calls made on an engine or on the presets
    sheep,         \* the outcome of SheepData(**kwargs)
    steps,         \* the components a pipeline run has gone through, in order
    presets_dir,   \* the YAML files of the presets directory, by stem
    presets        \* ConfigPresets.presets, None before the object exists

stdVars == <<method, standardized>>
engVars == <<engines, returned>>
lateVars == <<sheep, steps, presets_dir, presets>>
moreVars == <<candidates, grouped, flagged, called, lateVars>>
outs == <<filtered, scored, kwargs, raised, stdVars, engVars, moreVars>>
vars == <<df, config, edits, stage, filtered, scored, kwargs, raised, stdVars,
          engVars, moreVars>>

\* ---------------------------------------------------------------- bounds
MaxAnimals == 2
MaxEdits == 2
MaxCohort == 3

\* ------------------------------------------------------------ DataFrame
NaN == <<>>
Num(v) == <<v>>
IsNaN(c) == c = NaN
Val(c) == c[1]

\* pandas comparisons of a cell with a scalar: NaN compares False
GE(c, x) == ~IsNaN(c) /\ Val(c) >= x
LE(c, x) == ~IsNaN(c) /\ Val(c) <= x
LT(c, x) == ~IsNaN(c) /\ Val(c) < x
EQ(c, x) == ~IsNaN(c) /\ Val(c) = x

None == [none |-> TRUE]

\* df[rows]: boolean-mask row selection
Rows(d, rows) ==
    [cols |-> d.cols, idx |-> rows, cell |-> [a \in rows |-> d.cell[a]]]

\* the outcome of a call: the exception it raised ("" if none) and its value
Return(x) == [raise |-> "", value |-> x]
Raise(e) == [raise |-> e, value |-> None]

\* ------------------------------------------------------- AnalysisConfig
HardFilterCols ==
    {"wt_birth", "footrot_score", "dag_score", "wt_wean", "micron", "bse_pass"}

\* category weights in thousandths: 0.3 is 300
DefaultWeights ==
    [growth |-> 300, wool |-> 200, reproduction |-> 200, health |-> 200,
     temperament |-> 100]

DefaultThresholds ==
    [min_birth_weight |-> 20, max_footrot_score |-> 4, max_dag_score |-> 4,
     min_weaning_weight |-> 200, max_micron |-> 250, bse_pass_required |-> TRUE,
     weights |-> DefaultWeights]

\* the thresholds of tests/test_models.py::test_custom_config
\* here with the breeding-soundness pass not required
CustomThresholds ==
    [DefaultThresholds EXCEPT !.min_birth_weight = 30, !.max_footrot_score = 2,
                              !.bse_pass_required = FALSE]

Thresholds == {DefaultThresholds, CustomThresholds}

\* the weights of tests/test_models.py::test_custom_config, and a
\* configuration that gives one category the weight 0
CustomWeights == [growth |-> 500, wool |-> 300, reproduction |-> 200]

ZeroWeights == [growth |-> 600, health |-> 400, temperament |-> 0]

WeightConfigs ==
    {[DefaultThresholds EXCEPT !.weights = w] :
        w \in {DefaultWeights, CustomWeights, ZeroWeights}}

\* ------------------------------------------------------ FilterEngine
HardFilterOrder ==
    <<"min_birth_weight", "max_footrot_score", "max_dag_score",
      "min_weaning_weight", "max_micron", "bse_pass_required">>

FilterColumn(f) ==
    CASE f = "min_birth_weight"   -> "wt_birth"
      [] f = "max_footrot_score"  -> "footrot_score"
      [] f = "max_dag_score"      -> "dag_score"
      [] f = "min_weaning_weight" -> "wt_wean"
      [] f = "max_micron"         -> "micron"
      [] f = "bse_pass_required"  -> "bse_pass"

\* the `if` that guards each filter block
FilterEvaluated(d, cfg, f) ==
    /\ FilterColumn(f) \in d.cols
    /\ (f = "bse_pass_required" => cfg.bse_pass_required)

\* the comparisons with their boundaries excluded
PassesStrict(c, cfg, f) ==
    CASE f = "min_birth_weight"   -> ~IsNaN(c) /\ Val(c) > cfg.min_birth_weight
      [] f = "max_footrot_score"  -> ~IsNaN(c) /\ Val(c) < cfg.max_footrot_score
      [] f = "max_dag_score"      -> ~IsNaN(c) /\ Val(c) < cfg.max_dag_score
      [] f = "min_weaning_weight" -> ~IsNaN(c) /\ Val(c) > cfg.min_weaning_weight
      [] f = "max_micron"         -> ~IsNaN(c) /\ Val(c) < cfg.max_micron
      [] f = "bse_pass_required"  -> EQ(c, 1)

\* one element of the boolean mask a filter builds over the ORIGINAL df
Passes(c, cfg, f) ==
    CASE f = "min_birth_weight"   -> GE(c, cfg.min_birth_weight)
      [] f = "max_footrot_score"  -> LE(c, cfg.max_footrot_score)
      [] f = "max_dag_score"      -> LE(c, cfg.max_dag_score)
      [] f = "min_weaning_weight" -> GE(c, cfg.min_weaning_weight)
      [] f = "max_micron"         -> LE(c, cfg.max_micron)
      [] f = "bse_pass_required"  -> EQ(c, 1)

\* the rows where the filter's mask is True
Mask(d, cfg, f) == {a \in d.idx : Passes(d.cell[a][FilterColumn(f)], cfg, f)}

\* one filter block: s is (surviving rows, filters_applied, animals_removed)
FilterStep(d, cfg, s, f) ==
    IF ~FilterEvaluated(d, cfg, f) THEN s
    ELSE LET mask == Mask(d, cfg, f)
             removed_count == Cardinality(d.idx \ mask)
         IN  IF removed_count > 0
             THEN [rows |-> s.rows \cap mask,
                   filters_applied |-> Append(s.filters_applied, f),
                   animals_removed |-> s.animals_removed @@ (f :> removed_count)]
             ELSE s

RECURSIVE FilterFold(_, _, _, _)
FilterFold(d, cfg, s, order) ==
    IF order = <<>> THEN s
    ELSE FilterFold(d, cfg, FilterStep(d, cfg, s, Head(order)), Tail(order))

\* apply_hard_filters with its filter blocks in the given order
HardFiltersIn(d, cfg, order) ==
    LET s == FilterFold(d, cfg,
                 [rows |-> d.idx, filters_applied |-> <<>>,
                  animals_removed |-> <<>>], order)
    IN  [filtered_df |-> Rows(d, s.rows),
         filter_results |->
            [original_count |-> Cardinality(d.idx),
             filters_applied |-> s.filters_applied,
             animals_removed |-> s.animals_removed,
             final_count |-> Cardinality(s.rows),
             total_removed |-> Cardinality(d.idx) - Cardinality(s.rows)]]

apply_hard_filters(d, cfg) == HardFiltersIn(d, cfg, HardFilterOrder)

\* ------------------------------------------------------ RankingEngine
RECURSIVE SumOver(_, _)
SumOver(S, f) ==
    IF S = {} THEN 0
    ELSE LET x == CHOOSE y \in S : TRUE IN f[x] + SumOver(S \ {x}, f)

SeqToSet(q) == {q[i] : i \in DOMAIN q}

\* result_df[col] = column: a new column, or an existing one overwritten
WithColumn(d, col, column) ==
    [cols |-> d.cols \cup {col}, idx |-> d.idx,
     cell |-> [a \in d.idx |->
                 [c \in d.cols \cup {col} |->
                     IF c = col THEN column[a] ELSE d.cell[a][c]]]]

Categories == <<"growth", "wool", "reproduction", "health", "temperament">>

CategoryTraits(cat) ==
    CASE cat = "growth" ->
            {"adg_100_200d", "adg_200_300d", "wt_200d_adj", "wt_300d_adj"}
      [] cat = "wool" -> {"gfw", "cfw", "micron_score", "staple_len_score"}
      [] cat = "reproduction" ->
            {"weaning_rate", "lambs_weaned", "pregnancy_success"}
      [] cat = "health" -> {"fec_score", "footrot_score", "dag_score"}
      [] cat = "temperament" -> {"temperament"}

ScoreColumn(cat) ==
    CASE cat = "growth"       -> "growth_score"
      [] cat = "wool"         -> "wool_score"
      [] cat = "reproduction" -> "reproduction_score"
      [] cat = "health"       -> "health_score"
      [] cat = "temperament"  -> "temperament_score"

\* Category scores are means of up to four trait values.  They are kept in
\* units of 1/120 (a score of 2.5 is 300, one of 0.7 is 84), so that every
\* mean is an integer.
ScoreScale == 3 * 4 * 10

\* the health value with the inversion applied a second time
HealthValueTwice(t, v) ==
    IF t \in {"footrot_score", "dag_score"} THEN 5 - (5 - v) ELSE v

\* health_data: footrot and dag are inverted, 5 - score
HealthValue(t, v) ==
    IF t \in {"footrot_score", "dag_score"} THEN 5 - v ELSE v

\* the traits whose cells hold tenths (a weaning rate of 0.8 is 8, a fleece
\* weight of 3.3 kg is 33); the others hold whole units
TenthsTraits == {"gfw", "weaning_rate", "pregnancy_success"}

\* a trait value in tenths
InTenths(t, v) == IF t \in TenthsTraits THEN v ELSE 10 * v

\* df[available_traits].mean(axis=1, skipna=True) for one row, in units of
\* 1 / ScoreScale;
\* NaN when every available trait of the row is NaN
RowMean(d, a, cat, traits) ==
    LET present == {t \in traits : ~IsNaN(d.cell[a][t])}
        value == [t \in present |->
                    InTenths(t, IF cat = "health"
                                THEN HealthValue(t, Val(d.cell[a][t]))
                                ELSE Val(d.cell[a][t]))]
    IN  IF present = {} THEN NaN
        ELSE Num(((ScoreScale \div 10) * SumOver(present, value))
                    \div Cardinality(present))

\* Series.fillna(0)
FillNa0(c) == IF IsNaN(c) THEN Num(0) ELSE c

\* one category block of _calculate_category_scores
CategoryColumn(d, cat) ==
    LET available_traits == CategoryTraits(cat) \cap d.cols
    IN  [a \in d.idx |->
            IF available_traits = {} THEN Num(0)
            ELSE FillNa0(RowMean(d, a, cat, available_traits))]

RECURSIVE CategoryFold(_, _, _)
CategoryFold(d, result_df, cats) ==
    IF cats = <<>> THEN result_df
    ELSE LET cat == Head(cats)
         IN  CategoryFold(d,
                 IF ScoreColumn(cat) \notin d.cols
                 THEN WithColumn(result_df, ScoreColumn(cat), CategoryColumn(d, cat))
                 ELSE result_df,
                 Tail(cats))

calculate_category_scores(d) == CategoryFold(d, d, Categories)

\* the categories that enter the weighted average
WeightedCategories(d, weights) ==
    {cat \in DOMAIN weights : ScoreColumn(cat) \in d.cols /\ weights[cat] > 0}

\* _calculate_composite_score: the composite is the fraction <<n, w>>, in
\* the units of the category scores; sum(axis=1) skips NaN
calculate_composite_score(d, cfg) ==
    LET weights == cfg.weights
        category_scores == {cat \in DOMAIN weights : ScoreColumn(cat) \in d.cols}
        used == WeightedCategories(d, weights)
        total_weight == SumOver(used, weights)
        weighted(a) == [cat \in used |->
                          IF IsNaN(d.cell[a][ScoreColumn(cat)]) THEN 0
                          ELSE Val(d.cell[a][ScoreColumn(cat)]) * weights[cat]]
    IN  WithColumn(d, "composite_score",
            [a \in d.idx |->
                IF category_scores = {} THEN <<0, 1>>
                ELSE IF used # {} /\ total_weight > 0
                     THEN <<SumOver(used, weighted(a)), total_weight>>
                     ELSE <<0, 1>>])

\* comparison of two fractions with positive denominators
FracGT(x, y) == x[1] * y[2] > y[1] * x[2]
FracEQ(x, y) == x[1] * y[2] = y[1] * x[2]

\* the rows in descending order of a column (argsort of the negated values),
\* rows of equal value in label order
RECURSIVE DescendingFrom(_, _, _)
DescendingFrom(d, col, rows) ==
    IF rows = {} THEN <<>>
    ELSE LET first == CHOOSE a \in rows :
                        \A b \in rows :
                           /\ ~FracGT(d.cell[b][col], d.cell[a][col])
                           /\ FracEQ(d.cell[b][col], d.cell[a][col]) => a <= b
         IN  <<first>> \o DescendingFrom(d, col, rows \ {first})

SortedDescending(d, col) == DescendingFrom(d, col, d.idx)

\* rank(ascending=False, method='max'): the last position of the tied group
RankMax(d, col, a) ==
    LET order == SortedDescending(d, col)
    IN  CHOOSE i \in DOMAIN order :
          /\ FracEQ(d.cell[order[i]][col], d.cell[a][col])
          /\ \A j \in DOMAIN order :
                FracEQ(d.cell[order[j]][col], d.cell[a][col]) => j <= i

\* rank(ascending=False, method='min'): the first position of the tied group
Rank(d, col, a) ==
    LET order == SortedDescending(d, col)
    IN  CHOOSE i \in DOMAIN order :
          /\ FracEQ(d.cell[order[i]][col], d.cell[a][col])
          /\ \A j \in DOMAIN order :
                FracEQ(d.cell[order[j]][col], d.cell[a][col]) => i <= j

add_ranking(d) ==
    WithColumn(d, "rank",
        [a \in d.idx |->
            IF "composite_score" \in d.cols
            THEN Num(Rank(d, "composite_score", a)) ELSE Num(1)])

calculate_scores(d, cfg) ==
    add_ranking(calculate_composite_score(calculate_category_scores(d), cfg))

\* ------------------------------ MetricsCalculator._calculate_health_metrics
\* pd.concat(health_scores, axis=1).mean(axis=1) for one row, in units of
\* 1 / ScoreScale:
\* the mean of 5 - score over the footrot and dag scores the row has
InvertedMean(d, a, cols) ==
    LET present == {c \in cols : ~IsNaN(d.cell[a][c])}
        inverted == [c \in present |-> 5 - Val(d.cell[a][c])]
    IN  IF present = {} THEN NaN
        ELSE Num((ScoreScale * SumOver(present, inverted)) \div Cardinality(present))

\* _calculate_health_metrics: fec_score = 1 / (fec_count + 1) is the cell
\* <<1, fec_count + 1>>; health_score and temperament_score are not filled
calculate_health_metrics(d) ==
    LET with_fec ==
            IF "fec_count" \in d.cols
            THEN WithColumn(d, "fec_score",
                    [a \in d.idx |->
                        IF IsNaN(d.cell[a]["fec_count"]) THEN NaN
                        ELSE <<1, Val(d.cell[a]["fec_count"]) + 1>>])
            ELSE d
        available_health_cols == {"footrot_score", "dag_score"} \cap d.cols
        with_health ==
            IF available_health_cols # {}
            THEN WithColumn(with_fec, "health_score",
                    [a \in d.idx |-> InvertedMean(d, a, available_health_cols)])
            ELSE with_fec
    IN  IF "temperament" \in d.cols
        THEN WithColumn(with_health, "temperament_score",
                [a \in d.idx |-> d.cell[a]["temperament"]])
        ELSE with_health

\* ------------------------------------------- FilterEngine: soft filters
SoftFilterOrder == <<"min_200d_weight", "min_300d_weight", "min_weaning_rate">>

SoftColumn(f) ==
    CASE f = "min_200d_weight"  -> "wt_200d"
      [] f = "min_300d_weight"  -> "wt_300d"
      [] f = "min_weaning_rate" -> "weaning_rate"

SoftFlagColumn(f) ==
    CASE f = "min_200d_weight"  -> "soft_filter_200d"
      [] f = "min_300d_weight"  -> "soft_filter_300d"
      [] f = "min_weaning_rate" -> "soft_filter_weaning"

\* getattr(self.config, name, default): AnalysisConfig has no such field, so
\* the defaults 40.0 kg, 50.0 kg and 0.5 apply (weights and rates in tenths)
SoftThreshold(f) ==
    CASE f = "min_200d_weight"  -> 400
      [] f = "min_300d_weight"  -> 500
      [] f = "min_weaning_rate" -> 5

\* the comparison with the threshold itself flagged (<= for <)
SoftFlagInclusive(c, f) == LE(c, SoftThreshold(f))

\* one element of df[col] < threshold: False for a missing value
SoftFlag(c, f) == LT(c, SoftThreshold(f))

RECURSIVE SoftFold(_, _, _)
SoftFold(d, s, order) ==
    IF order = <<>> THEN s
    ELSE LET f == Head(order)
             flag == [a \in d.idx |-> Num(SoftFlag(d.cell[a][SoftColumn(f)], f))]
             flagged_count == Cardinality({a \in d.idx : flag[a] = Num(TRUE)})
         IN  SoftFold(d,
               IF SoftColumn(f) \notin d.cols THEN s
               ELSE [filtered_df |-> WithColumn(s.filtered_df, SoftFlagColumn(f), flag),
                     flags_applied |->
                        IF flagged_count > 0 THEN Append(s.flags_applied, f)
                        ELSE s.flags_applied,
                     animals_flagged |->
                        IF flagged_count > 0
                        THEN s.animals_flagged @@ (f :> flagged_count)
                        ELSE s.animals_flagged],
               Tail(order))

apply_soft_filters(d) ==
    LET s == SoftFold(d, [filtered_df |-> d, flags_applied |-> <<>>,
                          animals_flagged |-> <<>>], SoftFilterOrder)
    IN  [filtered_df |-> s.filtered_df,
         soft_filter_results |-> [animals_flagged |-> s.animals_flagged,
                                  flags_applied |-> s.flags_applied]]

\* ----------------------------------------------- RankingEngine.rank_rams
\* pd.DataFrame(): no rows, no columns
EmptyFrame == [cols |-> {}, idx |-> {}, cell |-> <<>>]

\* the rows of d in the order sort_values(col) leaves them in: ascending,
\* rows of equal value in their previous (label) order
RECURSIVE SortedBy(_, _, _)
SortedBy(d, col, rows) ==
    IF rows = {} THEN <<>>
    ELSE LET first == CHOOSE a \in rows :
                 \A b \in rows :
                    \/ Val(d.cell[a][col]) < Val(d.cell[b][col])
                    \/ (Val(d.cell[a][col]) = Val(d.cell[b][col]) /\ a <= b)
         IN  <<first>> \o SortedBy(d, col, rows \ {first})

\* rank_rams without the re-scoring: the rams keep their population ranks
rank_rams_inherited(d, cfg) ==
    IF "sex" \notin d.cols THEN Raise("KeyError")
    ELSE
    LET rams_df == Rows(d, {a \in d.idx : EQ(d.cell[a]["sex"], "Ram")})
    IN  IF rams_df.idx = {}
        THEN Return([frame |-> EmptyFrame, order |-> <<>>])
        ELSE Return(
              [frame |-> WithColumn(rams_df, "selection_recommended",
                            [a \in rams_df.idx |->
                                Num(LE(rams_df.cell[a]["rank"], 10))]),
               order |-> SortedBy(rams_df, "rank", rams_df.idx)])

\* rank_rams: the ranked rams and the order of their rows; a KeyError when
\* the record set has no sex column
rank_rams(d, cfg) ==
    IF "sex" \notin d.cols THEN Raise("KeyError")
    ELSE
    LET rams_df == Rows(d, {a \in d.idx : EQ(d.cell[a]["sex"], "Ram")})
        ranked_rams == calculate_scores(rams_df, cfg)
    IN  IF rams_df.idx = {}
        THEN Return([frame |-> EmptyFrame, order |-> <<>>])
        ELSE Return(
              [frame |-> WithColumn(ranked_rams, "selection_recommended",
                            [a \in ranked_rams.idx |->
                                Num(LE(ranked_rams.cell[a]["rank"], 10))]),
               order |-> SortedBy(ranked_rams, "rank", ranked_rams.idx)])

\* ------------------------------------ FilterEngine.identify_cull_candidates
\* the i-th smallest of the values of a column, NaN left out
NthSmallest(d, col, i) ==
    LET valid == {a \in d.idx : ~IsNaN(d.cell[a][col])}
        v(a) == Val(d.cell[a][col])
        it == CHOOSE a \in valid :
                 /\ Cardinality({b \in valid : v(b) < v(a)}) < i
                 /\ i <= Cardinality({b \in valid : v(b) <= v(a)})
    IN  v(it)

\* the quantile without interpolation: the value at the lower position
QuantileTenthLower(d, col) ==
    LET n == Cardinality({a \in d.idx : ~IsNaN(d.cell[a][col])})
    IN  IF n = 0 THEN NaN ELSE Num(10 * NthSmallest(d, col, ((n - 1) \div 10) + 1))

\* Series.quantile(0.1), linear interpolation, times ten: with the n valid
\* values x[1] <= ... <= x[n] and (n - 1) / 10 = k + r / 10 it is
\* x[k+1] + (r / 10) * (x[k+2] - x[k+1]); NaN for a column without values
QuantileTenth(d, col) ==
    LET n == Cardinality({a \in d.idx : ~IsNaN(d.cell[a][col])})
        k == (n - 1) \div 10
        r == (n - 1) % 10
        lower == NthSmallest(d, col, k + 1)
    IN  IF n = 0 THEN NaN
        ELSE IF r = 0 THEN Num(10 * lower)
        ELSE Num(10 * lower + r * (NthSmallest(d, col, k + 2) - lower))

\* df[col] < df[col].quantile(0.1)
BelowTenth(d, col, a) ==
    LET q == QuantileTenth(d, col)
    IN  ~IsNaN(q) /\ ~IsNaN(d.cell[a][col]) /\ 10 * Val(d.cell[a][col]) < Val(q)

RECURSIVE Concat(_)
Concat(parts) == IF parts = <<>> THEN "" ELSE Head(parts) \o Concat(Tail(parts))

\* str.rstrip('; '): every appended reason ends in "; " and no reason text
\* ends in ';' or ' ', so exactly one trailing "; " goes
RStrip(text, appended) ==
    IF appended = <<>> THEN text
    ELSE Concat(<<text>> \o [i \in 1..(Len(appended) - 1) |-> appended[i] \o "; "]
                \o <<appended[Len(appended)]>>)

identify_cull_candidates(d) ==
    LET existing(a) == "cull_flag" \in d.cols /\ EQ(d.cell[a]["cull_flag"], 1)
        low_weight(a) == "wt_300d" \in d.cols /\ BelowTenth(d, "wt_300d", a)
        poor_health(a) ==
            "health_score" \in d.cols /\ BelowTenth(d, "health_score", a)
        poor_repro(a) ==
            "weaning_rate" \in d.cols /\ LT(d.cell[a]["weaning_rate"], 5)
        appended(a) ==
            (IF low_weight(a) THEN <<"Low 300d weight">> ELSE <<>>)
            \o (IF poor_health(a) THEN <<"Poor health">> ELSE <<>>)
            \o (IF poor_repro(a) THEN <<"Poor reproduction">> ELSE <<>>)
        recommended == [a \in d.idx |->
            Num(existing(a) \/ low_weight(a) \/ poor_health(a) \/ poor_repro(a))]
        reasons == [a \in d.idx |->
            Num(RStrip(IF existing(a) THEN "Existing cull flag" ELSE "",
                       appended(a)))]
    IN  WithColumn(WithColumn(d, "cull_recommended", recommended),
                   "cull_reasons", reasons)

\* ------------------------------------- RankingEngine.create_scoring_results
\* row.get(col, default)
RowGet(d, a, col, default) == IF col \in d.cols THEN d.cell[a][col] ELSE default

\* score > 0.7 and score < 0.3 for a category score kept in units of 1 / ScoreScale
HighScore(c) == ~IsNaN(c) /\ 10 * Val(c) > 7 * ScoreScale
LowScore(c) == ~IsNaN(c) /\ 10 * Val(c) < 3 * ScoreScale

\* _generate_explanation
generate_explanation(d, a) ==
    LET score(cat) == RowGet(d, a, ScoreColumn(cat), Num(0))
        strong(cat) == HighScore(score(cat))
        poor(cat) == ~HighScore(score(cat)) /\ LowScore(score(cat))
        strength(cat) == "Strong " \o cat \o " performance"
        weakness(cat) == "Poor " \o cat \o " performance"
        low(col) == col \in d.cols /\ LowScore(d.cell[a][col])
        strengths == SelectSeq(Categories, strong)
        weaknesses == SelectSeq(Categories, poor)
    IN  [strengths |-> [i \in DOMAIN strengths |-> strength(strengths[i])],
         weaknesses |-> [i \in DOMAIN weaknesses |-> weakness(weaknesses[i])],
         recommendations |->
            (IF low("growth_score")
             THEN <<"Focus on improving growth performance">> ELSE <<>>)
            \o (IF low("health_score") THEN <<"Address health issues">> ELSE <<>>)
            \o (IF low("reproduction_score")
                THEN <<"Improve reproductive performance">> ELSE <<>>)]

\* the traits _extract_trait_scores looks for
ExtractedTraits ==
    {"adg_100_200d", "adg_200_300d", "wt_200d_adj", "wt_300d_adj",
     "gfw", "cfw", "micron_score", "staple_len_score",
     "weaning_rate", "lambs_weaned", "pregnancy_success",
     "fec_score", "footrot_score", "dag_score", "temperament"}

\* create_scoring_results: one entry per row, here keyed by the row label,
\* which stands for the animal_id
create_scoring_results(d) ==
    [a \in d.idx |->
        [animal_id |-> a,
         sex |-> d.cell[a]["sex"],
         final_score |-> RowGet(d, a, "composite_score", Num(0)),
         rank |-> RowGet(d, a, "rank", Num(999)),
         hard_filters_passed |-> TRUE,
         hard_filters_hit |-> <<>>,
         soft_filters_passed |-> TRUE,
         soft_filters_hit |-> <<>>,
         component_scores |->
            [cat \in SeqToSet(Categories) |-> RowGet(d, a, ScoreColumn(cat), Num(0))],
         trait_scores |-> [t \in ExtractedTraits \cap d.cols |-> d.cell[a][t]],
         explanation |-> generate_explanation(d, a),
         cull_recommended |-> RowGet(d, a, "cull_recommended", Num(FALSE)),
         cull_reason |-> RowGet(d, a, "cull_reasons", Num(""))]]

\* get_filter_summary
get_filter_summary(hard_results, soft_results) ==
    [hard_filters |-> hard_results,
     soft_filters |-> soft_results,
     summary |->
        [total_hard_filters |-> Len(hard_results.filters_applied),
         total_soft_filters |-> Len(soft_results.flags_applied),
         animals_removed |-> hard_results.total_removed,
         animals_flagged |-> SumOver(DOMAIN soft_results.animals_flagged,
                                     soft_results.animals_flagged)]]

\* Series.mean() of a column of integers or of fractions of one denominator:
\* the fraction <<sum, count * denominator>>
ColumnMean(d, col) ==
    LET numerator == [a \in d.idx |-> d.cell[a][col][1]]
        denominator ==
            LET c == d.cell[CHOOSE a \in d.idx : TRUE][col]
            IN  IF Len(c) = 2 THEN c[2] ELSE 1
    IN  <<SumOver(d.idx, numerator), Cardinality(d.idx) * denominator>>

\* Series.std() of the composite scores <<x, w>>, kept by what determines
\* it: std = sqrt(sum of deviation^2 / (n * n * (n - 1))) / w with
\* deviation = n * x - sum(x) for every row; NaN for a single row
CompositeStd(d) ==
    LET n == Cardinality(d.idx)
        x == [a \in d.idx |-> d.cell[a]["composite_score"][1]]
        w == d.cell[CHOOSE a \in d.idx : TRUE]["composite_score"][2]
        total == SumOver(d.idx, x)
    IN  IF n < 2 THEN NaN
        ELSE <<[deviation |-> [a \in d.idx |-> n * x[a] - total],
                count |-> n, denominator |-> w]>>

\* get_ranking_summary: {} for an empty frame
get_ranking_summary(ranked_df) ==
    IF ranked_df.idx = {} THEN <<>>
    ELSE
    LET composite(a) == ranked_df.cell[a]["composite_score"]
        lowest == CHOOSE a \in ranked_df.idx :
                    \A b \in ranked_df.idx : ~FracGT(composite(a), composite(b))
        highest == CHOOSE a \in ranked_df.idx :
                    \A b \in ranked_df.idx : ~FracGT(composite(b), composite(a))
        present == {cat \in SeqToSet(Categories) : ScoreColumn(cat) \in ranked_df.cols}
    IN  [total_animals |-> Cardinality(ranked_df.idx),
         score_statistics |->
            [mean |-> ColumnMean(ranked_df, "composite_score"),
             std |-> CompositeStd(ranked_df),
             min |-> composite(lowest),
             max |-> composite(highest)],
         \* head(10) of the rows in their order, the first ten labels
         top_performers |->
            [a \in {b \in ranked_df.idx :
                      Cardinality({c \in ranked_df.idx : c < b}) < 10} |->
                [animal_id |-> a, composite_score |-> composite(a),
                 rank |-> ranked_df.cell[a]["rank"]]],
         category_averages |->
            [cat \in present |-> ColumnMean(ranked_df, ScoreColumn(cat))]]

\* ----------------------------------------- ScoringEngine.score_animals
\* 'original_data': df is the caller's frame itself, as the call leaves it:
\* every stage works on a copy (df.copy()), so it is the frame passed in
CallerFrameInverted(d) ==
    IF "footrot_score" \in d.cols
    THEN WithColumn(d, "footrot_score",
            [a \in d.idx |->
                IF IsNaN(d.cell[a]["footrot_score"]) THEN NaN
                ELSE Num(5 - Val(d.cell[a]["footrot_score"]))])
    ELSE d

CallerFrame(d) == d

\* score_animals with the cull identifier run on the whole population
score_animals_cull_all(d, cfg) ==
    LET hard == apply_hard_filters(d, cfg)
        filtered_df == hard.filtered_df
        soft == apply_soft_filters(filtered_df)
        scored_df == soft.filtered_df
        ranked_df == calculate_scores(scored_df, cfg)
        ranked_rams == rank_rams(ranked_df, cfg)
        cull_candidates ==
            identify_cull_candidates(
                calculate_scores(apply_soft_filters(d).filtered_df, cfg))
    IN  IF ranked_rams.raise # "" THEN Raise(ranked_rams.raise)
        ELSE Return(
             [original_data |-> CallerFrame(d),
              filtered_data |-> filtered_df,
              scored_data |-> ranked_df,
              ranked_rams |-> ranked_rams.value,
              cull_candidates |-> cull_candidates,
              scoring_results |-> create_scoring_results(ranked_df),
              filter_summary |->
                 get_filter_summary(hard.filter_results, soft.soft_filter_results),
              ranking_summary |-> get_ranking_summary(ranked_df),
              config_used |-> cfg])

\* score_animals: the returned results, whose original_data is the caller's
\* frame itself, or the KeyError of rank_rams
score_animals(d, cfg) ==
    LET hard == apply_hard_filters(d, cfg)
        filtered_df == hard.filtered_df
        soft == apply_soft_filters(filtered_df)
        scored_df == soft.filtered_df
        ranked_df == calculate_scores(scored_df, cfg)
        ranked_rams == rank_rams(ranked_df, cfg)
        cull_candidates == identify_cull_candidates(ranked_df)
    IN  IF ranked_rams.raise # "" THEN Raise(ranked_rams.raise)
        ELSE Return(
             [original_data |-> CallerFrame(d),
              filtered_data |-> filtered_df,
              scored_data |-> ranked_df,
              ranked_rams |-> ranked_rams.value,
              cull_candidates |-> cull_candidates,
              scoring_results |-> create_scoring_results(ranked_df),
              filter_summary |->
                 get_filter_summary(hard.filter_results, soft.soft_filter_results),
              ranking_summary |-> get_ranking_summary(ranked_df),
              config_used |-> cfg])

\* ------------------------------------------------ ContemporaryGrouping
\* birth_date is a day number, NaN standing for NaT; mgmt_group is a string
\* sort_values('birth_date'): ascending, NaT last, ties in label order
RECURSIVE BirthOrder(_, _)
BirthOrder(d, rows) ==
    IF rows = {} THEN <<>>
    ELSE LET date(a) == d.cell[a]["birth_date"]
             before(a, b) ==
                \/ ~IsNaN(date(a)) /\ IsNaN(date(b))
                \/ ~IsNaN(date(a)) /\ ~IsNaN(date(b)) /\ Val(date(a)) < Val(date(b))
                \/ (IsNaN(date(a)) <=> IsNaN(date(b)))
                   /\ (IsNaN(date(a)) \/ Val(date(a)) = Val(date(b)))
                   /\ a <= b
             first == CHOOSE a \in rows : \A b \in rows : before(a, b)
         IN  <<first>> \o BirthOrder(d, rows \ {first})

\* f"{row['mgmt_group']}_G{current_group}"
GroupName(mgmt_group, current_group) ==
    mgmt_group \o "_G" \o ToString(current_group)

\* the window test of the previous animal instead of the window's first
WithinWindowOfPrevious(birth_date, current_group_start, previous, window_days) ==
    /\ ~IsNaN(birth_date) /\ ~IsNaN(previous)
    /\ Val(birth_date) - Val(previous) <= window_days

\* (birth_date - current_group_start).days <= self.window_days; the
\* difference with a NaT is NaT, its .days is nan and the test is False
WithinWindow(birth_date, current_group_start, previous, window_days) ==
    /\ ~IsNaN(birth_date) /\ ~IsNaN(current_group_start)
    /\ Val(birth_date) - Val(current_group_start) <= window_days

\* the loop of _group_by_birth_window over the rows from position i on;
\* walk holds current_group, current_group_start (not started, None,
\* before the first animal), the previous animal's birth date and the
\* names given so far
RECURSIVE BirthWalk(_, _, _, _, _)
BirthWalk(d, order, i, walk, window_days) ==
    IF i > Len(order) THEN walk.contemporary_groups
    ELSE LET a == order[i]
             birth_date == d.cell[a]["birth_date"]
             joins == ~walk.started
                      \/ WithinWindow(birth_date, walk.current_group_start,
                                      walk.previous, window_days)
             current_group == IF joins THEN walk.current_group
                              ELSE walk.current_group + 1
         IN  BirthWalk(d, order, i + 1,
                [current_group |-> current_group,
                 started |-> TRUE,
                 current_group_start |->
                    IF joins /\ walk.started
                    THEN walk.current_group_start ELSE birth_date,
                 previous |-> birth_date,
                 contemporary_groups |->
                    walk.contemporary_groups @@
                    (a :> GroupName(Val(d.cell[a]["mgmt_group"]), current_group))],
                window_days)

\* _group_by_birth_window: animal -> group name
group_by_birth_window(d, rows, window_days) ==
    IF rows = {} \/ "birth_date" \notin d.cols THEN <<>>
    ELSE BirthWalk(d, BirthOrder(d, rows), 1,
            [current_group |-> 1, started |-> FALSE, current_group_start |-> NaN,
             previous |-> NaN, contemporary_groups |-> <<>>],
            window_days)

\* create_contemporary_groups: a KeyError without a mgmt_group column; the
\* rows of the animals are told apart by their animal_id (the row label)
create_contemporary_groups(d, window_days) ==
    IF "mgmt_group" \notin d.cols THEN Raise("KeyError")
    ELSE
    LET mgmt_groups == {Val(d.cell[a]["mgmt_group"]) :
                          a \in {b \in d.idx : ~IsNaN(d.cell[b]["mgmt_group"])}}
        rows_of(g) == {a \in d.idx : EQ(d.cell[a]["mgmt_group"], g)}
        names == [g \in mgmt_groups |->
                    group_by_birth_window(d, rows_of(g), window_days)]
    IN  Return(WithColumn(d, "contemporary_group",
            [a \in d.idx |->
                IF ~IsNaN(d.cell[a]["mgmt_group"])
                   /\ a \in DOMAIN names[Val(d.cell[a]["mgmt_group"])]
                THEN Num(names[Val(d.cell[a]["mgmt_group"])][a])
                ELSE NaN]))

\* ------------------------------------------- ScoringEngine accessors
\* every accessor takes self.scoring_results, {} before the first run
HasResults(sr) == DOMAIN sr # {}

\* DataFrame.head(n) of the ranked rams: the first n rows in their order
get_top_rams(sr, n) ==
    IF ~HasResults(sr) THEN Return([frame |-> EmptyFrame, order |-> <<>>])
    ELSE LET order == sr.ranked_rams.order
             kept == SubSeq(order, 1, IF Len(order) < n THEN Len(order) ELSE n)
         IN  Return([frame |-> Rows(sr.ranked_rams.frame, SeqToSet(kept)),
                     order |-> kept])

\* get_cull_recommendations returning every cull candidate row
get_cull_recommendations_all(sr) ==
    IF ~HasResults(sr) THEN EmptyFrame ELSE sr.cull_candidates

\* cull_candidates[cull_candidates['cull_recommended'] == True]
get_cull_recommendations(sr) ==
    IF ~HasResults(sr) THEN EmptyFrame
    ELSE Rows(sr.cull_candidates,
              {a \in sr.cull_candidates.idx :
                  EQ(sr.cull_candidates.cell[a]["cull_recommended"], TRUE)})

\* get_animal_details: the entry of scoring_results with that animal_id,
\* None when there is none or nothing was scored
get_animal_details(sr, animal_id) ==
    IF ~HasResults(sr) THEN None
    ELSE IF animal_id \in DOMAIN sr.scoring_results
    THEN sr.scoring_results[animal_id]
    ELSE None

\* get_summary_statistics; retention_rate is the fraction <<100 * kept, all>>
get_summary_statistics(sr) ==
    IF ~HasResults(sr) THEN Return(<<>>)
    ELSE LET total == Cardinality(sr.original_data.idx)
             kept == Cardinality(sr.filtered_data.idx)
         IN  Return(
              [total_animals_processed |-> total,
               animals_after_hard_filters |-> kept,
               total_rams_ranked |-> Len(sr.ranked_rams.order),
               cull_recommendations |-> Cardinality(get_cull_recommendations(sr).idx),
               retention_rate |-> IF total > 0 THEN <<100 * kept, total>> ELSE <<0, 1>>,
               filter_summary |-> sr.filter_summary,
               ranking_summary |-> sr.ranking_summary])

\* validate_scoring reading ranked_rams['rank'] without looking for the column
validate_scoring_unguarded(sr) ==
    IF ~HasResults(sr) THEN Return(<<"No scoring results available">>)
    ELSE IF "rank" \notin sr.ranked_rams.frame.cols THEN Raise("KeyError")
    ELSE Return(<<>>)

\* validate_scoring: the list of issues.  A composite <<n, w>> is n / w in
\* units of 1 / ScoreScale, so it is above 1 when n > ScoreScale * w.
validate_scoring(sr) ==
    IF ~HasResults(sr) THEN Return(<<"No scoring results available">>)
    ELSE
    LET scored_data == sr.scored_data
        composite(a) == scored_data.cell[a]["composite_score"]
        out_of_range ==
            /\ "composite_score" \in scored_data.cols
            /\ \E a \in scored_data.idx :
                  composite(a)[1] < 0 \/ composite(a)[1] > ScoreScale * composite(a)[2]
        order == sr.ranked_rams.order
        rank(j) == Val(sr.ranked_rams.frame.cell[order[j]]["rank"])
        unordered ==
            /\ "rank" \in sr.ranked_rams.frame.cols
            /\ \E j, k \in DOMAIN order : j < k /\ rank(j) > rank(k)
    IN  Return(
          (IF Cardinality(sr.filtered_data.idx) > Cardinality(sr.original_data.idx)
           THEN <<"Filtered data has more rows than original data">> ELSE <<>>)
          \o (IF out_of_range
              THEN <<"Composite scores outside expected range [0, 1]">> ELSE <<>>)
          \o (IF unordered THEN <<"Ranks are not properly ordered">> ELSE <<>>))

\* export_results: the keys of the exported files (the writing itself is
\* the file system's business)
export_results(sr) ==
    IF ~HasResults(sr) THEN Return({})
    ELSE Return(
          (IF sr.ranked_rams.order # <<>> THEN {"ranked_rams", "html_report"} ELSE {})
          \cup (IF get_cull_recommendations(sr).idx # {}
                THEN {"cull_recommendations"} ELSE {})
          \cup (IF DOMAIN sr.scoring_results # {} THEN {"detailed_results"} ELSE {}))

\* ----------------------------------------------------- DataStandardizer
\* Cells of standardized columns: a percentile is the fraction <<p, n>>; a
\* z-score (v - mean) / std is kept exactly as <<d, k, q>>, standing for
\* d * sqrt(k / q), with d = n*v - sum, k = n - 1 and q the sum of the
\* squares of the d of the valid values; the integer 0 of the zero-variance
\* branch is <<0>>.
TrackedTraits ==
    {"wt_200d", "wt_300d", "adg_100_200d", "adg_200_300d",
     "gfw", "cfw", "micron", "staple_len",
     "weaning_rate", "lambs_weaned",
     "fec_count", "footrot_score", "dag_score",
     "temperament"}

StdColumn(trait) == trait \o "_std"

Methods == {"percentile", "zscore"}

\* rows of a column whose value is not NaN: values.dropna()
Valid(values) == {a \in DOMAIN values : ~IsNaN(values[a])}

\* the percentile with the strict comparison
percentile_standardize_strict(values, valid_values) ==
    [a \in DOMAIN values |->
        IF IsNaN(values[a]) THEN NaN
        ELSE <<100 * Cardinality({b \in valid_values :
                                    Val(values[b]) < Val(values[a])}),
               Cardinality(valid_values)>>]

\* _percentile_standardize: (valid_values <= val).sum() / len(valid_values) * 100
percentile_standardize(values, valid_values) ==
    [a \in DOMAIN values |->
        IF IsNaN(values[a]) THEN NaN
        ELSE <<100 * Cardinality({b \in valid_values :
                                    Val(values[b]) <= Val(values[a])}),
               Cardinality(valid_values)>>]

\* valid_values.mean() of n identical values v (in tenths) is the binary64
\* quotient of their running sum by n, which need not be v again: for 3.3
\* the sum 3.3 + 3.3 + 3.3 is 9.899999999999999 and the mean comes out as
\* 3.2999999999999994.  The result is the sign of v - mean: 0 when the mean
\* is exact.  Two or four equal values, and the value 3.0, give exact means.
MeanRounding(v, n) == IF v = 33 /\ n = 3 THEN 1 ELSE 0

\* _zscore_standardize
zscore_standardize(values, valid_values) ==
    LET n == Cardinality(valid_values)
        val == [a \in valid_values |-> Val(values[a])]
        total == SumOver(valid_values, val)
        d == [a \in valid_values |-> n * val[a] - total]
        q == SumOver(valid_values, [a \in valid_values |-> d[a] * d[a]])
        v0 == val[CHOOSE a \in valid_values : TRUE]
        \* all deviations are 0 in exact arithmetic; the computed std_val is
        \* 0 only if the computed mean is the common value itself
        std_is_zero == q = 0 /\ MeanRounding(v0, n) = 0
    IN  IF std_is_zero THEN [a \in DOMAIN values |-> Num(0)]
        ELSE [a \in DOMAIN values |->
                IF IsNaN(values[a]) THEN NaN
                ELSE IF q = 0 THEN <<MeanRounding(v0, n), n - 1, n>>
                     ELSE <<d[a], n - 1, q>>]

\* the guard that also standardizes a single valid value
TooFewNone(valid_values) == Cardinality(valid_values) < 1

\* len(valid_values) < 2
TooFew(valid_values) == Cardinality(valid_values) < 2

\* _standardize_trait: a column of cells, or a raised ValueError
standardize_trait(values, m) ==
    LET valid_values == Valid(values)
    IN  IF TooFew(valid_values) THEN Return([a \in DOMAIN values |-> NaN])
        ELSE IF m = "percentile"
             THEN Return(percentile_standardize(values, valid_values))
        ELSE IF m = "zscore"
             THEN Return(zscore_standardize(values, valid_values))
        ELSE Raise("ValueError")

\* the column of a trait over a set of rows
ColumnOf(d, rows, trait) == [a \in rows |-> d.cell[a][trait]]

\* _standardize_group: the new <trait>_std columns of one group
standardize_group(d, rows, m) ==
    [trait \in TrackedTraits \cap d.cols |->
        standardize_trait(ColumnOf(d, rows, trait), m)]

GroupRows(d, group) ==
    {a \in d.idx : EQ(d.cell[a]["contemporary_group"], group)}

\* standardize_data with contemporary_groups=None
standardize_data(d, m) ==
    IF "contemporary_group" \notin d.cols THEN Raise("KeyError")
    ELSE
    LET groups == {Val(d.cell[a]["contemporary_group"]) :
                     a \in {b \in d.idx : ~IsNaN(d.cell[b]["contemporary_group"])}}
        \* groups of a single animal are skipped
        done == {g \in groups : ~(Cardinality(GroupRows(d, g)) < 2)}
        traits == TrackedTraits \cap d.cols
        result == [g \in done |-> standardize_group(d, GroupRows(d, g), m)]
        std_cols == {StdColumn(t) : t \in traits}
        trait_of(c) == CHOOSE t \in traits : StdColumn(t) = c
        group_of(a) == Val(d.cell[a]["contemporary_group"])
    IN  IF \E g \in done, t \in traits : result[g][t].raise # ""
        THEN Raise("ValueError")
        ELSE IF done = {} THEN Return(d)
        ELSE Return(
             [cols |-> d.cols \cup std_cols, idx |-> d.idx,
              cell |-> [a \in d.idx |->
                 [c \in d.cols \cup std_cols |->
                    IF c \in d.cols THEN d.cell[a][c]
                    ELSE IF ~IsNaN(d.cell[a]["contemporary_group"])
                            /\ group_of(a) \in done
                         THEN result[group_of(a)][trait_of(c)].value[a]
                         ELSE NaN]]])

\* ------------------------------------------------------------- inputs
Animals == 1..MaxAnimals

\* a sound animal that passes every hard filter of both configurations
BaseValue(c) ==
    CASE c = "wt_birth"      -> Num(35)
      [] c = "footrot_score" -> Num(1)
      [] c = "dag_score"     -> Num(1)
      [] c = "wt_wean"       -> Num(300)
      [] c = "micron"        -> Num(200)
      [] c = "bse_pass"      -> Num(1)
      [] c = "contemporary_group" -> Num(1)
      [] c = "gfw"           -> Num(33)
      [] c = "sex"           -> Num("Ram")
      [] c = "wt_200d"       -> Num(450)
      [] c = "wt_300d"       -> Num(550)
      [] c = "weaning_rate"  -> Num(8)
      [] c = "cull_flag"     -> Num(0)
      [] c = "mgmt_group"    -> Num("A")
      [] c = "birth_date"    -> Num(0)
      [] c = "pregnancy_success" -> Num(8)
      [] OTHER               -> Num(3)

\* the other values a cell is given: missing, failing, on the threshold
EditValues(c) ==
    CASE c = "wt_birth"      -> {NaN, Num(15), Num(20), Num(30)}
      [] c = "footrot_score" -> {NaN, Num(2), Num(4), Num(5)}
      [] c = "dag_score"     -> {NaN, Num(4), Num(5)}
      [] c = "wt_wean"       -> {NaN, Num(190), Num(200)}
      [] c = "micron"        -> {NaN, Num(250), Num(260)}
      [] c = "bse_pass"      -> {NaN, Num(0)}
      [] c = "contemporary_group" -> {NaN, Num(2)}
      [] c = "gfw"           -> {NaN, Num(30), Num(36)}
      [] c = "sex"           -> {NaN, Num("Ewe")}
      [] c = "wt_200d"       -> {NaN, Num(400), Num(350)}
      [] c = "wt_300d"       -> {NaN, Num(450)}
      [] c = "weaning_rate"  -> {NaN, Num(4)}
      [] c = "cull_flag"     -> {Num(1)}
      [] c = "mgmt_group"    -> {NaN, Num("B")}
      [] c = "birth_date"    -> {NaN, Num(1), Num(30), Num(31), Num(61)}
      [] c = "pregnancy_success" -> {NaN, Num(2), Num(3), Num(7)}
      [] OTHER               -> {NaN, Num(1)}

BaseFrame(cols, n) ==
    [cols |-> cols, idx |-> 1..n,
     cell |-> [a \in 1..n |-> [c \in cols |-> BaseValue(c)]]]

NoFilterRun == None

\* two engines; self.scoring_results = {} after __init__
Engines == {"one", "other"}

NoResults == <<>>

NoEngines == [e \in Engines |-> NoResults]

\* no other component has been called
NothingElseRan ==
    /\ candidates = None
    /\ grouped = None
    /\ flagged = None
    /\ called = None
    /\ sheep = None
    /\ steps = <<>>
    /\ presets_dir = <<>>
    /\ presets = None

InitFilter ==
    /\ \E n \in 1..MaxAnimals : df = BaseFrame(HardFilterCols, n)
    /\ config \in Thresholds
    /\ edits = 0
    /\ stage = "input"
    /\ filtered = NoFilterRun
    /\ scored = None
    /\ kwargs = None
    /\ raised = ""
    /\ method = "percentile"
    /\ standardized = None
    /\ engines = NoEngines
    /\ returned = <<>>
    /\ NothingElseRan

\* a record arrives with another value in one cell
SetCell ==
    /\ stage = "input"
    /\ edits < MaxEdits
    /\ \E a \in df.idx, c \in df.cols :
         \E v \in EditValues(c) \ {df.cell[a][c]} :
            df' = [df EXCEPT !.cell[a][c] = v]
    /\ edits' = edits + 1
    /\ UNCHANGED <<config, stage, outs>>

\* the record set comes without one of its optional columns
DropColumn ==
    /\ stage = "input"
    /\ edits < MaxEdits
    /\ \E c \in df.cols :
         df' = [cols |-> df.cols \ {c}, idx |-> df.idx,
                cell |-> [a \in df.idx |->
                            [k \in df.cols \ {c} |-> df.cell[a][k]]]]
    /\ edits' = edits + 1
    /\ UNCHANGED <<config, stage, outs>>

ApplyHardFilters ==
    /\ stage = "input"
    /\ filtered' = apply_hard_filters(df, config)
    /\ stage' = "done"
    /\ UNCHANGED <<df, config, edits, scored, kwargs, raised, stdVars, engVars, moreVars>>

NextFilter == SetCell \/ DropColumn \/ ApplyHardFilters

SpecFilter == InitFilter /\ [][NextFilter]_vars

\* ------------------------------------------------------------ C1, C2
FilterRan == stage = "done" /\ filtered # NoFilterRun

Survivors == filtered.filtered_df.idx

\* the trait a filter reads is absent for animal a: no such column, or NaN
TraitMissing(d, a, f) ==
    FilterColumn(f) \notin d.cols \/ IsNaN(d.cell[a][FilterColumn(f)])

\* the survival condition of the filter table, on a present value v
Condition(v, cfg, f) ==
    CASE f = "min_birth_weight"   -> v >= cfg.min_birth_weight
      [] f = "max_footrot_score"  -> v <= cfg.max_footrot_score
      [] f = "max_dag_score"      -> v <= cfg.max_dag_score
      [] f = "min_weaning_weight" -> v >= cfg.min_weaning_weight
      [] f = "max_micron"         -> v <= cfg.max_micron
      [] f = "bse_pass_required"  -> cfg.bse_pass_required => v = 1

FilterNames == {HardFilterOrder[i] : i \in DOMAIN HardFilterOrder}

\* C1: a filter whose trait is absent for an animal never
\* removes it, so an animal whose present traits all satisfy their
\* conditions survives apply_hard_filters, whether its other traits are
\* missing as whole columns or only in its own row.
C1_MissingTraitNeverEliminates ==
    FilterRan =>
        \A a \in df.idx :
            (\A f \in FilterNames :
                TraitMissing(df, a, f)
                \/ Condition(Val(df.cell[a][FilterColumn(f)]), config, f))
            => a \in Survivors

AllTraitsPresent(d) ==
    /\ HardFilterCols \subseteq d.cols
    /\ \A a \in d.idx, c \in HardFilterCols : ~IsNaN(d.cell[a][c])

Satisfying(d, cfg) ==
    {a \in d.idx :
        \A f \in FilterNames : Condition(Val(d.cell[a][FilterColumn(f)]), cfg, f)}

FilterState(rows) ==
    [rows |-> rows, filters_applied |-> <<>>, animals_removed |-> <<>>]

\* two filter blocks give the same surviving rows in either order, from any
\* surviving set; by exchanging neighbours this carries over to every order
BlocksCommute(d, cfg) ==
    \A rows \in SUBSET d.idx, i, j \in DOMAIN HardFilterOrder :
      LET f == HardFilterOrder[i]
          g == HardFilterOrder[j]
      IN  i < j =>
        FilterStep(d, cfg, FilterStep(d, cfg, FilterState(rows), f), g).rows
      = FilterStep(d, cfg, FilterStep(d, cfg, FilterState(rows), g), f).rows

Reverse(order) == [i \in DOMAIN order |-> order[Len(order) + 1 - i]]

\* the five rams of the end-to-end scenario: birth weights 1.5 .. 3.5 kg
ScenarioBirthWeight == <<15, 20, 25, 30, 35>>

ScenarioFrame ==
    [cols |-> HardFilterCols, idx |-> 1..5,
     cell |-> [a \in 1..5 |->
                 [c \in HardFilterCols |->
                     IF c = "wt_birth" THEN Num(ScenarioBirthWeight[a])
                     ELSE BaseValue(c)]]]

ScenarioSurvivors ==
    apply_hard_filters(ScenarioFrame, DefaultThresholds).filtered_df.idx

\* C2: with every filtered trait present, the survivors are exactly the
\* animals that satisfy all six conditions (boundaries inclusive), whatever
\* the order of the filter blocks; the scenario keeps the four rams >= 2.0 kg.
C2_SurvivorsAreExactlyTheSatisfying ==
    /\ (FilterRan /\ AllTraitsPresent(df)) =>
          /\ Survivors = Satisfying(df, config)
          /\ BlocksCommute(df, config)
          /\ HardFiltersIn(df, config, Reverse(HardFilterOrder)).filtered_df.idx
                = Survivors
    /\ ScenarioSurvivors = {2, 3, 4, 5}

\* an animal exactly on a threshold survives beside one that is removed
C2_Witness ==
    /\ FilterRan /\ AllTraitsPresent(df)
    /\ \E a \in Survivors : df.cell[a]["wt_birth"] = Num(config.min_birth_weight)
    /\ df.idx \ Survivors # {}

\* ------------------------------------------------ calculate_scores runs
ScoreCols ==
    {"wt_200d_adj", "gfw", "weaning_rate", "footrot_score", "fec_score",
     "temperament"}

InitScore ==
    /\ \E n \in 1..MaxAnimals : df = BaseFrame(ScoreCols, n)
    /\ config \in WeightConfigs
    /\ edits = 0
    /\ stage = "input"
    /\ filtered = NoFilterRun
    /\ scored = None
    /\ kwargs = None
    /\ raised = ""
    /\ method = "percentile"
    /\ standardized = None
    /\ engines = NoEngines
    /\ returned = <<>>
    /\ NothingElseRan

CalculateScores ==
    /\ stage = "input"
    /\ scored' = calculate_scores(df, config)
    /\ stage' = "done"
    /\ UNCHANGED <<df, config, edits, filtered, kwargs, raised, stdVars, engVars, moreVars>>

NextScore == SetCell \/ DropColumn \/ CalculateScores

SpecScore == InitScore /\ [][NextScore]_vars

\* ------------------------------------------------------------ C3, C4
ScoreRan == stage = "done" /\ scored # None

\* the animal has a value for at least one trait of the category
HasData(d, a, cat) ==
    \E t \in CategoryTraits(cat) \cap d.cols : ~IsNaN(d.cell[a][t])

PresentCategories(d, cfg, a) ==
    {cat \in DOMAIN cfg.weights : cfg.weights[cat] > 0 /\ HasData(d, a, cat)}

\* C3: the composite score is the weighted sum of the category
\* scores over the categories the animal has data for, divided by the sum
\* of the weights of those same categories.
C3_CompositeRenormalisedOverPresent ==
    ScoreRan =>
        \A a \in df.idx :
            LET present == PresentCategories(df, config, a)
                weighted == [cat \in present |->
                    config.weights[cat] * Val(scored.cell[a][ScoreColumn(cat)])]
                composite == scored.cell[a]["composite_score"]
            IN  present # {} =>
                    FracEQ(composite,
                           <<SumOver(present, weighted),
                             SumOver(present, config.weights)>>)

Composite(d, a) == d.cell[a]["composite_score"]

StrictlyHigher(d, a) == {b \in d.idx : FracGT(Composite(d, b), Composite(d, a))}

\* composite scores 0.90, 0.90, 0.80
TieFrame ==
    [cols |-> {"composite_score"}, idx |-> 1..3,
     cell |-> [a \in 1..3 |->
                 [c \in {"composite_score"} |->
                     IF a = 3 THEN <<80, 100>> ELSE <<90, 100>>]]]

TieRanks == [a \in 1..3 |-> Val(add_ranking(TieFrame).cell[a]["rank"])]

\* C4: after calculate_scores every rank is one plus the number of animals
\* with a strictly higher composite score; tied animals share a rank, ranks
\* lie in 1..N, some animal has rank 1, and 0.90, 0.90, 0.80 rank 1, 1, 3.
C4_CompetitionRanking ==
    /\ ScoreRan =>
          /\ \A a \in scored.idx :
                /\ Val(scored.cell[a]["rank"])
                      = 1 + Cardinality(StrictlyHigher(scored, a))
                /\ Val(scored.cell[a]["rank"]) \in 1..Cardinality(scored.idx)
          /\ \A a, b \in scored.idx :
                FracEQ(Composite(scored, a), Composite(scored, b))
                    => scored.cell[a]["rank"] = scored.cell[b]["rank"]
          /\ scored.idx # {} => \E a \in scored.idx : scored.cell[a]["rank"] = Num(1)
    /\ TieRanks = <<1, 1, 3>>

\* two animals tie behind a better one, or tie for the first place
C4_Witness ==
    /\ ScoreRan
    /\ \E a, b \in scored.idx :
          /\ a # b
          /\ FracEQ(Composite(scored, a), Composite(scored, b))
          /\ scored.cell[a]["rank"] = scored.cell[b]["rank"]
    /\ edits > 0

\* ------------------------------------------- AnalysisConfig construction
\* Weights are in thousandths, so the tolerance 0.001 is one unit.
WeightTolerance == 1

MaxWeights == 3

\* 0.2, 0.3, 0.499, 0.5, 0.501
WeightValues == {200, 300, 499, 500, 501}

Abs(x) == IF x < 0 THEN -x ELSE x

\* a validator that lets a tenfold deviation pass
validate_weights_sum_loose(v, above) ==
    IF Abs(SumOver(DOMAIN v, v) - 1000) > 10 * WeightTolerance
    THEN "ValueError" ELSE ""

\* validate_weights_sum: abs(sum(v.values()) - 1.0) > 0.001 raises.  The sum
\* and the difference are binary floating point: a deviation of exactly
\* 0.001 comes out just above the tolerance (0.5 + 0.499) or just below it
\* (0.5 + 0.501); `above` says which.
validate_weights_sum(v, above) ==
    LET deviation == Abs(SumOver(DOMAIN v, v) - 1000)
    IN  IF deviation > WeightTolerance \/ (deviation = WeightTolerance /\ above)
        THEN "ValueError" ELSE ""

NoKwargs == [given |-> FALSE, weights |-> <<>>]

InitConfig ==
    /\ df = None
    /\ config = None
    /\ edits = 0
    /\ stage = "input"
    /\ filtered = NoFilterRun
    /\ scored = None
    /\ kwargs = NoKwargs
    /\ raised = ""
    /\ method = "percentile"
    /\ standardized = None
    /\ engines = NoEngines
    /\ returned = <<>>
    /\ NothingElseRan

\* the caller passes weights={} ...
SupplyEmptyWeights ==
    /\ stage = "input"
    /\ ~kwargs.given
    /\ kwargs' = [given |-> TRUE, weights |-> <<>>]
    /\ UNCHANGED <<df, config, edits, stage, filtered, scored, raised, stdVars, engVars, moreVars>>

\* ... or a mapping with one more category in it
SupplyWeight ==
    /\ stage = "input"
    /\ Cardinality(DOMAIN kwargs.weights) < MaxWeights
    /\ \E cat \in SeqToSet(Categories) \ DOMAIN kwargs.weights, w \in WeightValues :
          kwargs' = [given |-> TRUE, weights |-> kwargs.weights @@ (cat :> w)]
    /\ UNCHANGED <<df, config, edits, stage, filtered, scored, raised, stdVars, engVars, moreVars>>

\* AnalysisConfig(**kwargs): the field validator runs on a supplied weights
\* mapping only; a raised ValueError leaves no configuration value
ConstructConfig ==
    /\ stage = "input"
    /\ \E above \in BOOLEAN :
          LET error == IF kwargs.given
                       THEN validate_weights_sum(kwargs.weights, above) ELSE ""
          IN  /\ raised' = error
              /\ config' = IF error # "" THEN None
                           ELSE IF kwargs.given
                                THEN [DefaultThresholds EXCEPT !.weights = kwargs.weights]
                                ELSE DefaultThresholds
    /\ stage' = "done"
    /\ UNCHANGED <<df, edits, filtered, scored, kwargs, stdVars, engVars, moreVars>>

NextConfig == SupplyEmptyWeights \/ SupplyWeight \/ ConstructConfig

SpecConfig == InitConfig /\ [][NextConfig]_vars

\* ---------------------------------------------------------------- C5
WeightSum(w) == SumOver(DOMAIN w, w)

\* C5: a constructed AnalysisConfig has weights that sum to 1.0 within 0.001,
\* and supplied weights whose sum is further than 0.001 from 1.0 make the
\* construction raise and leave no configuration value.
C5_WeightsSumOrConstructionFails ==
    stage = "done" =>
        /\ config # None => Abs(WeightSum(config.weights) - 1000) <= 1
        /\ (kwargs.given /\ Abs(WeightSum(kwargs.weights) - 1000) > 1)
              => raised = "ValueError" /\ config = None

\* the weights of test_weights_validation: 0.5 + 0.3 is refused
C5_Witness ==
    /\ stage = "done"
    /\ kwargs.given
    /\ kwargs.weights = [growth |-> 500, wool |-> 300]
    /\ raised = "ValueError"
    /\ config = None

\* ------------------------------------------------ standardize_data runs
StdCols == {"contemporary_group", "gfw", "footrot_score"}

InitStd ==
    /\ \E n \in 1..MaxCohort : df = BaseFrame(StdCols, n)
    /\ config = DefaultThresholds
    /\ edits = 0
    /\ stage = "input"
    /\ filtered = NoFilterRun
    /\ scored = None
    /\ kwargs = None
    /\ raised = ""
    /\ method \in Methods \cup {"minmax"}
    /\ standardized = None
    /\ engines = NoEngines
    /\ returned = <<>>
    /\ NothingElseRan

StandardizeData ==
    /\ stage = "input"
    /\ LET r == standardize_data(df, method)
       IN  raised' = r.raise /\ standardized' = r.value
    /\ stage' = "done"
    /\ UNCHANGED <<df, config, edits, filtered, scored, kwargs, method, engVars, moreVars>>

NextStd == SetCell \/ DropColumn \/ StandardizeData

SpecStd == InitStd /\ [][NextStd]_vars

\* ------------------------------------------------------ C6, C7, C8, C9
StdRan == stage = "done" /\ raised = "" /\ standardized # None

Cohorts(d) ==
    {Val(d.cell[a]["contemporary_group"]) :
        a \in {b \in d.idx : ~IsNaN(d.cell[b]["contemporary_group"])}}

Members(d, g) == {a \in d.idx : d.cell[a]["contemporary_group"] = Num(g)}

NonMissing(d, g, t) == {a \in Members(d, g) : ~IsNaN(d.cell[a][t])}

TraitsOf(d) == TrackedTraits \cap d.cols

\* the standardized value of animal a for trait t: missing when the run
\* made no such column
StdValue(a, t) ==
    IF StdColumn(t) \in standardized.cols
    THEN standardized.cell[a][StdColumn(t)] ELSE NaN

Raw(a, t) == Val(df.cell[a][t])

IsFraction(c) == Len(c) = 2 /\ c[2] > 0

\* the cohort of tests/test_metrics.py::test_calculate_percentile_rank
PercentileScenario ==
    standardize_trait([a \in 1..5 |-> Num(10 * a)], "percentile").value

\* C6: in a cohort with at least two non-missing values of a trait the
\* percentile of an animal is (number of non-missing cohort values <= its
\* value) / (number of non-missing cohort values) * 100: it lies in 0..100,
\* equal values get equal percentiles, a larger value never a smaller
\* percentile, the cohort maximum gets 100; 10..50 give 20, 40, 60, 80, 100.
C6_PercentileOfCohort ==
    /\ (StdRan /\ method = "percentile") =>
        \A g \in Cohorts(df), t \in TraitsOf(df) :
            LET nm == NonMissing(df, g, t)
            IN  Cardinality(nm) >= 2 =>
                \A a \in nm :
                    LET p == StdValue(a, t)
                    IN  /\ IsFraction(p)
                        /\ FracEQ(p, <<100 * Cardinality(
                                         {b \in nm : Raw(b, t) <= Raw(a, t)}),
                                       Cardinality(nm)>>)
                        /\ p[1] >= 0 /\ p[1] <= 100 * p[2]
                        /\ \A b \in nm :
                            /\ Raw(a, t) = Raw(b, t)
                                  => FracEQ(p, StdValue(b, t))
                            /\ Raw(a, t) < Raw(b, t)
                                  => ~FracGT(p, StdValue(b, t))
                        /\ (\A b \in nm : Raw(b, t) <= Raw(a, t))
                              => FracEQ(p, <<100, 1>>)
    /\ \A a \in 1..5 : FracEQ(PercentileScenario[a], <<20 * a, 1>>)

\* a cohort with two equal values below a larger one, and an animal of no
\* or another cohort beside it
C6_Witness ==
    /\ StdRan /\ method = "percentile"
    /\ \E g \in Cohorts(df), t \in TraitsOf(df) :
         \E a, b, c \in NonMissing(df, g, t) :
            a # b /\ Raw(a, t) = Raw(b, t) /\ Raw(b, t) < Raw(c, t)

\* C7: when fewer than two animals of a cohort have a value of a tracked
\* trait, every animal of that cohort has a missing standardized value for
\* the trait after standardize_data.
C7_TooFewValuesGiveMissing ==
    StdRan =>
        \A g \in Cohorts(df), t \in TraitsOf(df) :
            Cardinality(NonMissing(df, g, t)) < 2 =>
                \A a \in Members(df, g) : IsNaN(StdValue(a, t))

\* a cohort of two or more with a single value of a trait, in a run that
\* did standardize another cohort or trait
C7_Witness ==
    /\ StdRan
    /\ \E g \in Cohorts(df), t \in TraitsOf(df) :
          /\ Cardinality(Members(df, g)) >= 2
          /\ Cardinality(NonMissing(df, g, t)) = 1
          /\ StdColumn(t) \in standardized.cols

IsZero(c) == Len(c) >= 1 /\ c[1] = 0

\* C8: with the z-score method a cohort whose non-missing
\* values of a trait are at least two and all identical gets the
\* standardized value 0 for every member.
C8_ZeroVarianceGivesZero ==
    (StdRan /\ method = "zscore") =>
        \A g \in Cohorts(df), t \in TraitsOf(df) :
            LET nm == NonMissing(df, g, t)
            IN  (Cardinality(nm) >= 2 /\ \A a, b \in nm : Raw(a, t) = Raw(b, t))
                    => \A a \in Members(df, g) : IsZero(StdValue(a, t))

\* C9: an animal whose raw value of a trait is missing never
\* gets a numeric standardized value for it, under either method.
C9_MissingRawStaysMissing ==
    StdRan =>
        \A a \in df.idx, t \in TraitsOf(df) :
            IsNaN(df.cell[a][t]) => IsNaN(StdValue(a, t))

\* ------------------------------------------------- score_animals runs
\* as many runs as engines: one engine twice, or each engine once
MaxRuns == Cardinality(Engines)

EngineCols == {"sex", "footrot_score", "wt_300d", "weaning_rate", "cull_flag"}

InitEngine ==
    /\ \E n \in 1..MaxAnimals : df = BaseFrame(EngineCols, n)
    /\ config \in Thresholds
    /\ edits = 0
    /\ stage = "input"
    /\ filtered = NoFilterRun
    /\ scored = None
    /\ kwargs = None
    /\ raised = ""
    /\ method = "percentile"
    /\ standardized = None
    /\ engines = NoEngines
    /\ returned = <<>>
    /\ NothingElseRan

\* engine e scores the record set; the caller keeps using the same frame
\* for the next call
ScoreAnimals(e) ==
    /\ raised = ""
    /\ Len(returned) < MaxRuns
    /\ \E r \in {score_animals(df, config)} :
          /\ raised' = r.raise
          /\ IF r.raise = ""
             THEN /\ engines' = [engines EXCEPT ![e] = r.value]
                  /\ returned' = Append(returned, [engine |-> e, results |-> r.value])
                  /\ df' = r.value.original_data
             ELSE UNCHANGED <<engines, returned, df>>
    /\ stage' = "done"
    /\ UNCHANGED <<config, edits, filtered, scored, kwargs, stdVars, moreVars>>

NextEngine == SetCell \/ DropColumn \/ \E e \in Engines : ScoreAnimals(e)

SpecEngine == InitEngine /\ [][NextEngine]_vars

\* ---------------------------------------------------------------- C10
\* what a run says about the animals: composite score and rank of every
\* scored animal, the ranked rams in their order, the cull recommendation
\* and reasons of every animal
Outcome(results) ==
    [scores |-> [a \in results.scored_data.idx |->
                    <<results.scored_data.cell[a]["composite_score"],
                      results.scored_data.cell[a]["rank"]>>],
     ranked_rams |-> results.ranked_rams,
     culls |-> [a \in results.cull_candidates.idx |->
                    <<results.cull_candidates.cell[a]["cull_recommended"],
                      results.cull_candidates.cell[a]["cull_reasons"]>>]]

HealthCols == {"sex", "footrot_score", "dag_score", "fec_score"}

InitHealth ==
    /\ \E n \in 1..MaxAnimals : df = BaseFrame(HealthCols, n)
    /\ config = DefaultThresholds
    /\ edits = 0
    /\ stage = "input"
    /\ filtered = NoFilterRun
    /\ scored = None
    /\ kwargs = None
    /\ raised = ""
    /\ method = "percentile"
    /\ standardized = None
    /\ engines = NoEngines
    /\ returned = <<>>
    /\ NothingElseRan

\* the records go through the metrics calculator before they are scored
CalculateHealthMetrics ==
    /\ stage = "input"
    /\ df' = calculate_health_metrics(df)
    /\ stage' = "metrics"
    /\ UNCHANGED <<config, edits, outs>>

NextHealth ==
    \/ SetCell
    \/ DropColumn
    \/ CalculateHealthMetrics
    \/ \E e \in Engines : ScoreAnimals(e)

SpecHealth == InitHealth /\ [][NextHealth]_vars

\* ---------------------------------------------------------------- C11
\* the health score, in units of 1 / ScoreScale, that the raw values of row a give when
\* footrot and dag enter as 5 - raw and the traits are the given ones
InvertedOnce(d, a, traits) ==
    LET present == {t \in traits \cap d.cols : ~IsNaN(d.cell[a][t])}
        value == [t \in present |->
                    IF t = "fec_score" THEN Val(d.cell[a][t])
                    ELSE 5 - Val(d.cell[a][t])]
    IN  IF present = {} THEN None
        ELSE ScoreScale * SumOver(present, value)

\* the health score h of row a is the mean of the once-inverted raw values
HealthFromRaw(d, a, h) ==
    LET rated == {t \in {"footrot_score", "dag_score"} \cap d.cols :
                    ~IsNaN(d.cell[a][t])}
        scored_by_metrics == "health_score" \in d.cols
        traits == IF scored_by_metrics THEN {"footrot_score", "dag_score"}
                  ELSE {"fec_score", "footrot_score", "dag_score"}
        present == {t \in traits \cap d.cols : ~IsNaN(d.cell[a][t])}
    IN  rated # {} =>
            /\ ~IsNaN(h)
            /\ Val(h) * Cardinality(present) = InvertedOnce(d, a, traits)

\* footrot is the only health trait, with raw scores 1 and 3
FootrotScenario ==
    [cols |-> {"sex", "footrot_score"}, idx |-> 1..2,
     cell |-> [a \in 1..2 |->
                [c \in {"sex", "footrot_score"} |->
                    IF c = "sex" THEN Num("Ram") ELSE Num(2 * a - 1)]]]

FootrotScenarioHealth ==
    LET direct == score_animals(FootrotScenario, DefaultThresholds).value
        through_metrics ==
            score_animals(calculate_health_metrics(FootrotScenario),
                          DefaultThresholds).value
    IN  {[a \in 1..2 |-> r.cell[a]["health_score"]] :
            r \in {direct.scored_data, direct.ranked_rams.frame,
                   through_metrics.scored_data, through_metrics.ranked_rams.frame}}

\* C11: in every run the health score of every scored animal, and of every
\* ram in the ram ranking, is the mean of its health values with footrot and
\* dag entered once as 5 - raw, whether or not the metrics calculator scored
\* health before; footrot scores 1 and 3 alone give health scores 4 and 2.
C11_HealthInvertedOnce ==
    /\ \A i \in DOMAIN returned :
        LET r == returned[i].results
        IN  /\ \A a \in r.scored_data.idx :
                 HealthFromRaw(r.original_data, a, r.scored_data.cell[a]["health_score"])
            /\ \A a \in r.ranked_rams.frame.idx :
                 HealthFromRaw(r.original_data, a,
                               r.ranked_rams.frame.cell[a]["health_score"])
    /\ FootrotScenarioHealth = {<<Num(4 * ScoreScale), Num(2 * ScoreScale)>>}

\* a run on records that went through the metrics calculator, with a ranked
\* ram that has a footrot and a dag score, one of them above 1
C11_Witness ==
    /\ returned # <<>>
    /\ "health_score" \in df.cols
    /\ \E a \in returned[1].results.ranked_rams.frame.idx :
          /\ ~IsNaN(df.cell[a]["footrot_score"])
          /\ ~IsNaN(df.cell[a]["dag_score"])
          /\ Val(df.cell[a]["footrot_score"]) > 1

\* -------------------------------------- identify_cull_candidates runs
CullCols == {"cull_flag", "wt_300d", "health_score", "weaning_rate"}

HerdSize == 100

\* the orders in which the herd's weights come: animal a has the weight of
\* position (a * k) mod HerdSize
HerdOrders == {1, 3, 7}

\* a herd of HerdSize animals with as many distinct 300-day weights, no
\* cull flag, equal health scores and a weaning rate of 0.8
Herd(k) ==
    [cols |-> CullCols, idx |-> 1..HerdSize,
     cell |-> [a \in 1..HerdSize |->
                [c \in CullCols |->
                    IF c = "wt_300d" THEN Num(300 + ((a * k) % HerdSize))
                    ELSE BaseValue(c)]]]

InitCull ==
    /\ \/ /\ \E n \in 1..MaxAnimals : df = BaseFrame(CullCols, n)
          /\ edits = 0
       \/ /\ \E k \in HerdOrders : df = Herd(k)
          /\ edits = MaxEdits
    /\ config = DefaultThresholds
    /\ stage = "input"
    /\ filtered = NoFilterRun
    /\ scored = None
    /\ kwargs = None
    /\ raised = ""
    /\ method = "percentile"
    /\ standardized = None
    /\ engines = NoEngines
    /\ returned = <<>>
    /\ NothingElseRan

IdentifyCullCandidates ==
    /\ stage = "input"
    /\ candidates' = identify_cull_candidates(df)
    /\ stage' = "done"
    /\ UNCHANGED <<df, config, edits, filtered, scored, kwargs, raised, stdVars,
                   engVars, grouped, flagged, called,
                   lateVars>>

NextCull == SetCell \/ DropColumn \/ IdentifyCullCandidates

SpecCull == InitCull /\ [][NextCull]_vars

\* ------------------------------------------------------------ C12, C13
CullRan == stage = "done" /\ candidates # None

Recommended == {a \in candidates.idx :
                  candidates.cell[a]["cull_recommended"] = Num(TRUE)}

Has(a, c) == c \in df.cols /\ ~IsNaN(df.cell[a][c])

\* the number of animals with a value of column c strictly below a's
Below(a, c) ==
    Cardinality({b \in df.idx : Has(b, c) /\ Val(df.cell[b][c]) < Val(df.cell[a][c])})

DistinctWeights ==
    \A a, b \in df.idx :
        /\ Has(a, "wt_300d")
        /\ (a # b => df.cell[a]["wt_300d"] # df.cell[b]["wt_300d"])

\* C12: in a population of HerdSize (100) animals with distinct 300-day
\* weights in which no other cull criterion holds, the recommended animals
\* are exactly the tenth of the herd (10 animals) with the lowest weights.
C12_BottomTenthOfHundred ==
    (CullRan /\ Cardinality(df.idx) = HerdSize /\ DistinctWeights) =>
        /\ Recommended = {a \in df.idx : Below(a, "wt_300d") < HerdSize \div 10}
        /\ Cardinality(Recommended) = HerdSize \div 10

\* the herd went through identify_cull_candidates, its weights not in order
C12_Witness ==
    /\ CullRan
    /\ Cardinality(df.idx) = HerdSize
    /\ DistinctWeights
    /\ \E a, b \in df.idx : a < b /\ Val(df.cell[a]["wt_300d"]) > Val(df.cell[b]["wt_300d"])

\* the four cull criteria of an animal, from its raw values
CullFlagSet(a) == Has(a, "cull_flag") /\ Val(df.cell[a]["cull_flag"]) = 1

BelowTenthPercentile(a, c) ==
    /\ Has(a, c)
    /\ ~IsNaN(QuantileTenth(df, c))
    /\ 10 * Val(df.cell[a][c]) < Val(QuantileTenth(df, c))

PoorReproduction(a) == Has(a, "weaning_rate") /\ Val(df.cell[a]["weaning_rate"]) < 5

\* the reasons of the criteria that hold for an animal, one text each
ReasonsThatHold(a) ==
    (IF CullFlagSet(a) THEN <<"Existing cull flag">> ELSE <<>>)
    \o (IF BelowTenthPercentile(a, "wt_300d") THEN <<"Low 300d weight">> ELSE <<>>)
    \o (IF BelowTenthPercentile(a, "health_score") THEN <<"Poor health">> ELSE <<>>)
    \o (IF PoorReproduction(a) THEN <<"Poor reproduction">> ELSE <<>>)

\* the texts of a list, "; " between any two of them
RECURSIVE Separated(_)
Separated(texts) ==
    IF texts = <<>> THEN ""
    ELSE IF Len(texts) = 1 THEN texts[1]
    ELSE texts[1] \o "; " \o Separated(Tail(texts))

\* C13: an animal is recommended for culling exactly when one of the four
\* criteria holds for it (a missing value satisfies none), and its reasons
\* are the reasons of the criteria that hold, each one set apart from the
\* next, and no other.
C13_CullIffCriterionWithReasons ==
    CullRan =>
        \A a \in df.idx :
            /\ (a \in Recommended) <=> (ReasonsThatHold(a) # <<>>)
            /\ candidates.cell[a]["cull_reasons"] = Num(Separated(ReasonsThatHold(a)))

\* the recommendation alone: recommended exactly when a criterion holds
C13_RecommendedIffCriterion ==
    CullRan => \A a \in df.idx : (a \in Recommended) <=> (ReasonsThatHold(a) # <<>>)

\* ------------------------------------ create_contemporary_groups runs
MaxFlock == 3

GroupCols == {"mgmt_group", "birth_date"}

\* window_days of the ContemporaryGrouping: the default and a short one
Windows == {1, 30}

InitGroup ==
    /\ \E n \in 1..MaxFlock : df = BaseFrame(GroupCols, n)
    /\ \E w \in Windows : config = [window_days |-> w]
    /\ edits = 0
    /\ stage = "input"
    /\ filtered = NoFilterRun
    /\ scored = None
    /\ kwargs = None
    /\ raised = ""
    /\ method = "percentile"
    /\ standardized = None
    /\ engines = NoEngines
    /\ returned = <<>>
    /\ NothingElseRan

CreateContemporaryGroups ==
    /\ stage = "input"
    /\ \E r \in {create_contemporary_groups(df, config.window_days)} :
          raised' = r.raise /\ grouped' = r.value
    /\ stage' = "done"
    /\ UNCHANGED <<df, config, edits, filtered, scored, kwargs, stdVars,
                   engVars, candidates, flagged, called,
                   lateVars>>

NextGroup == SetCell \/ DropColumn \/ CreateContemporaryGroups

SpecGroup == InitGroup /\ [][NextGroup]_vars

\* ------------------------------------------------------------ C14, C15
GroupRan == stage = "done" /\ grouped # None

\* the animals with both a management group and a birth date
Complete == {a \in df.idx : Has(a, "mgmt_group") /\ Has(a, "birth_date")}

Cohort(a) == grouped.cell[a]["contemporary_group"]

\* the cohorts the complete animals get when they are grouped on their own
CohortsOfComplete ==
    create_contemporary_groups(Rows(df, Complete), config.window_days).value

\* C14: create_contemporary_groups does not raise; every animal with a
\* management group and a birth date has a cohort label, the one it gets
\* when the animals without a birth date or management group are left out,
\* and every animal lacking a birth date or a management group has none.
C14_CompleteAssignedOthersNone ==
    stage = "done" =>
        /\ raised = ""
        /\ grouped # None
        /\ \A a \in df.idx :
             IF a \in Complete
             THEN /\ ~IsNaN(Cohort(a))
                  /\ "mgmt_group" \in df.cols /\ "birth_date" \in df.cols
                       => Cohort(a) = CohortsOfComplete.cell[a]["contemporary_group"]
             ELSE IsNaN(Cohort(a))

\* the part of C14 that is about the animals with both values
C14_CompleteAnimalsAssigned ==
    GroupRan =>
        \A a \in Complete :
            /\ ~IsNaN(Cohort(a))
            /\ Cohort(a) = CohortsOfComplete.cell[a]["contemporary_group"]

Mgmt(a) == Val(df.cell[a]["mgmt_group"])

Born(a) == Val(df.cell[a]["birth_date"])

\* the complete animals of the management group of a
Mates(a) == {b \in Complete : Mgmt(b) = Mgmt(a)}

HasNumber(a, n) == Cohort(a) = Num(GroupName(Mgmt(a), n))

Numbers == 1..Cardinality(df.idx)

\* the birth date of the animal that opened cohort n of a's management group
Opened(a, n) ==
    LET members == {b \in Mates(a) : HasNumber(b, n)}
    IN  Born(CHOOSE b \in members : \A c \in members : Born(b) <= Born(c))

\* C15: among the animals of a management group that have a birth date,
\* taken in ascending birth-date order, cohort n + 1 is opened by the first
\* animal born more than window_days after the animal that opened cohort n,
\* and every other animal joins the cohort open at its turn.  Labels are
\* '<management group>_G<n>' with n = 1, 2, ... without gaps, non-decreasing
\* in birth date; animals sharing a label share the management group and are
\* born at most window_days apart; a single animal gets '_G1'.
C15_WindowAnchoredAtFirstAnimal ==
    GroupRan =>
        \A a \in Complete :
            /\ \E n \in Numbers : HasNumber(a, n)
            /\ \A n \in Numbers : HasNumber(a, n) =>
                 /\ Born(a) <= Opened(a, n) + config.window_days
                 /\ n > 1 =>
                      /\ \E b \in Mates(a) : HasNumber(b, n - 1)
                      /\ Opened(a, n) > Opened(a, n - 1) + config.window_days
            /\ \A b \in Complete :
                 /\ (Mgmt(a) = Mgmt(b) /\ Born(a) < Born(b)) =>
                       \A n, m \in Numbers :
                          (HasNumber(a, n) /\ HasNumber(b, m)) => n <= m
                 /\ Cohort(a) = Cohort(b) =>
                       /\ Mgmt(a) = Mgmt(b)
                       /\ Born(b) - Born(a) <= config.window_days
            /\ Mates(a) = {a} => HasNumber(a, 1)

\* three animals of one management group: the second is born within the
\* window of the first, the third within the window of the second but
\* outside that of the first
C15_Witness ==
    /\ GroupRan
    /\ \E a, b, c \in Complete :
          /\ Mgmt(a) = Mgmt(b) /\ Mgmt(b) = Mgmt(c)
          /\ Born(a) < Born(b) /\ Born(b) < Born(c)
          /\ Born(b) - Born(a) <= config.window_days
          /\ Born(c) - Born(b) <= config.window_days
          /\ Born(c) - Born(a) > config.window_days
          /\ Cohort(a) = Cohort(b) /\ Cohort(b) # Cohort(c)

\* ---------------------------------------------------------------- C16
RamsOf(results) ==
    {a \in results.scored_data.idx : results.scored_data.cell[a]["sex"] = Num("Ram")}

RamRank(results, a) == Val(results.ranked_rams.frame.cell[a]["rank"])

RamComposite(results, a) == results.ranked_rams.frame.cell[a]["composite_score"]

\* C16: the ram ranking holds exactly the scored animals of sex Ram; a ram's
\* rank there is one plus the number of rams with a strictly higher
\* composite score, so the best ram has rank 1 whatever the other animals
\* score; the rows come in non-decreasing rank.
C16_RamsRankedAmongRams ==
    \A i \in DOMAIN returned :
        LET r == returned[i].results
            rams == r.ranked_rams.frame.idx
            order == r.ranked_rams.order
        IN  /\ rams = RamsOf(r)
            /\ \A a \in rams :
                 RamRank(r, a) =
                    1 + Cardinality({b \in rams :
                           FracGT(RamComposite(r, b), RamComposite(r, a))})
            /\ rams # {} => \E a \in rams : RamRank(r, a) = 1
            /\ Len(order) = Cardinality(rams)
            /\ SeqToSet(order) = rams
            /\ \A j, k \in DOMAIN order :
                 j < k => RamRank(r, order[j]) <= RamRank(r, order[k])

\* a ram that another animal outscores in the population leads the rams
C16_Witness ==
    /\ returned # <<>>
    /\ \E a \in returned[1].results.ranked_rams.frame.idx :
          /\ RamRank(returned[1].results, a) = 1
          /\ Val(returned[1].results.scored_data.cell[a]["rank"]) > 1

\* ---------------------------------------------------------------- C17
\* the categories for which the records carry no trait column at all
Unmeasured(d) ==
    {cat \in SeqToSet(Categories) :
        CategoryTraits(cat) \cap d.cols = {} /\ ScoreColumn(cat) \notin d.cols}

LowPerformanceAdvice(cat) ==
    CASE cat = "growth"       -> "Focus on improving growth performance"
      [] cat = "health"       -> "Address health issues"
      [] cat = "reproduction" -> "Improve reproductive performance"
      [] OTHER                -> ""

\* the explanation carries a mark that the category was not evaluated
MarkedNotEvaluated(explanation, cat) ==
    /\ "not_evaluated" \in DOMAIN explanation
    /\ cat \in SeqToSet(explanation.not_evaluated)

\* C17: for every scored animal and every category without any available
\* trait, the category score is 0, the explanation marks the category as
\* not evaluated, and it neither lists "Poor <category> performance" among
\* the weaknesses nor gives the low-performance recommendation for it.
C17_UnmeasuredCategoryNotEvaluated ==
    \A i \in DOMAIN returned :
        LET r == returned[i].results
        IN  \A a \in DOMAIN r.scoring_results, cat \in Unmeasured(r.original_data) :
                LET entry == r.scoring_results[a]
                IN  /\ entry.component_scores[cat] = Num(0)
                    /\ MarkedNotEvaluated(entry.explanation, cat)
                    /\ ("Poor " \o cat \o " performance")
                          \notin SeqToSet(entry.explanation.weaknesses)
                    /\ LowPerformanceAdvice(cat)
                          \notin SeqToSet(entry.explanation.recommendations)

\* the score part of C17 alone: an unmeasured category scores 0
C17_UnmeasuredCategoryScoresZero ==
    \A i \in DOMAIN returned :
        LET r == returned[i].results
        IN  \A a \in DOMAIN r.scoring_results, cat \in Unmeasured(r.original_data) :
                r.scoring_results[a].component_scores[cat] = Num(0)

\* ------------------------------------------ accessors after a run
AccessCols == {"sex", "footrot_score", "weaning_rate"}

InitAccess ==
    /\ \E n \in 1..MaxAnimals : df = BaseFrame(AccessCols, n)
    /\ config = DefaultThresholds
    /\ edits = 0
    /\ stage = "input"
    /\ filtered = NoFilterRun
    /\ scored = None
    /\ kwargs = None
    /\ raised = ""
    /\ method = "percentile"
    /\ standardized = None
    /\ engines = NoEngines
    /\ returned = <<>>
    /\ NothingElseRan

\* the ids a caller asks about: those of the records and one more
AnimalIds == 1..(MaxAnimals + 1)

\* the caller asks engine e for its top rams, cull recommendations, the
\* details of every animal, summary, validation and export, after so many
\* runs
CallAccessors(e) ==
    /\ called = None
    /\ raised = ""
    /\ called' = [engine |-> e,
                  after |-> Len(returned),
                  results |-> engines[e],
                  get_top_rams |-> get_top_rams(engines[e], 10),
                  get_cull_recommendations |-> get_cull_recommendations(engines[e]),
                  get_animal_details |->
                     [id \in AnimalIds |-> get_animal_details(engines[e], id)],
                  get_summary_statistics |-> get_summary_statistics(engines[e]),
                  validate_scoring |-> validate_scoring(engines[e]),
                  export_results |-> export_results(engines[e])]
    /\ stage' = "done"
    /\ UNCHANGED <<df, config, edits, filtered, scored, kwargs, raised, stdVars,
                   engVars, candidates, grouped, flagged,
                   lateVars>>

NextAccess ==
    \/ SetCell
    \/ DropColumn
    \/ \E e \in Engines : ScoreAnimals(e)
    \/ \E e \in Engines : CallAccessors(e)

SpecAccess == InitAccess /\ [][NextAccess]_vars

\* ---------------------------------------------------------------- C18
\* the latest run found no ram among the animals that passed the filters
NoRamSurvived(results) ==
    /\ "sex" \in results.filtered_data.cols
    /\ \A a \in results.filtered_data.idx :
          results.filtered_data.cell[a]["sex"] # Num("Ram")

\* C18: when the records have a sex column and no ram passes the hard
\* filters (the filtered population may be empty), score_animals returns
\* without raising, its ranked_rams is empty, and afterwards get_top_rams,
\* get_summary_statistics (total_rams_ranked = 0), validate_scoring and
\* export_results return without raising.
C18_NoRamsIsNotAnError ==
    /\ (stage = "done" /\ "sex" \in df.cols
          /\ \A a \in apply_hard_filters(df, config).filtered_df.idx :
                df.cell[a]["sex"] # Num("Ram"))
        => raised = "" 
    /\ \A i \in DOMAIN returned :
          NoRamSurvived(returned[i].results) =>
             /\ returned[i].results.ranked_rams.order = <<>>
             /\ returned[i].results.ranked_rams.frame.idx = {}
    /\ (called # None /\ HasResults(called.results)
          /\ NoRamSurvived(called.results)) =>
             /\ called.get_top_rams.raise = ""
             /\ called.get_top_rams.value.order = <<>>
             /\ called.get_summary_statistics.raise = ""
             /\ called.get_summary_statistics.value.total_rams_ranked = 0
             /\ called.validate_scoring.raise = ""
             /\ called.export_results.raise = ""
             /\ "ranked_rams" \notin called.export_results.value

\* the accessors were called after a run in which a ewe passed the filters
\* and the only ram did not
C18_Witness ==
    /\ called # None
    /\ HasResults(called.results)
    /\ NoRamSurvived(called.results)
    /\ called.results.filtered_data.idx # {}
    /\ \E a \in called.results.original_data.idx :
          called.results.original_data.cell[a]["sex"] = Num("Ram")

\* ---------------------------------------------------------------- C20
\* the animals of df that pass every evaluated filter before position i of
\* the table: the set that reaches filter i
Reaching(i) ==
    {a \in df.idx :
        \A j \in 1..(i - 1) :
            FilterEvaluated(df, config, HardFilterOrder[j])
               => a \in Mask(df, config, HardFilterOrder[j])}

\* the animals filter i takes out of the set that reaches it
RemovedBy(i) == Reaching(i) \ Reaching(i + 1)

\* animals_removed.get(f, 0)
RecordedRemoved(f) ==
    IF f \in DOMAIN filtered.filter_results.animals_removed
    THEN filtered.filter_results.animals_removed[f] ELSE 0

\* C20: each hard filter's recorded removal count is the number of animals
\* it removes from the set that survived the preceding filters in table
\* order, so an animal failing several filters is counted by the first one
\* only, and the counts sum to total_removed = original_count - final_count.
C20_RemovalCountedByFirstFilter ==
    FilterRan =>
        /\ \A i \in DOMAIN HardFilterOrder :
              RecordedRemoved(HardFilterOrder[i]) = Cardinality(RemovedBy(i))
        /\ SumOver(FilterNames, [f \in FilterNames |-> RecordedRemoved(f)])
              = filtered.filter_results.total_removed
        /\ filtered.filter_results.total_removed
              = filtered.filter_results.original_count
                  - filtered.filter_results.final_count

\* the part of C20 the code keeps: the survivors are the animals that reach
\* the end of the table, and total_removed is the difference of the counts
C20_TotalRemovedIsTheDifference ==
    FilterRan =>
        /\ Survivors = Reaching(Len(HardFilterOrder) + 1)
        /\ filtered.filter_results.total_removed
              = Cardinality(df.idx) - Cardinality(Survivors)

\* ------------------------------------------------ apply_soft_filters runs
SoftCols == {"wt_200d", "wt_300d", "weaning_rate"}

InitSoft ==
    /\ \E n \in 1..MaxAnimals : df = BaseFrame(SoftCols, n)
    /\ config = DefaultThresholds
    /\ edits = 0
    /\ stage = "input"
    /\ filtered = NoFilterRun
    /\ scored = None
    /\ kwargs = None
    /\ raised = ""
    /\ method = "percentile"
    /\ standardized = None
    /\ engines = NoEngines
    /\ returned = <<>>
    /\ NothingElseRan

ApplySoftFilters ==
    /\ stage = "input"
    /\ flagged' = apply_soft_filters(df)
    /\ stage' = "done"
    /\ UNCHANGED <<df, config, edits, filtered, scored, kwargs, raised, stdVars,
                   engVars, candidates, grouped, called,
                   lateVars>>

NextSoft == SetCell \/ DropColumn \/ ApplySoftFilters

SpecSoft == InitSoft /\ [][NextSoft]_vars

\* ---------------------------------------------------------------- C19
SoftRan == stage = "done" /\ flagged # None

SoftFilterNames == {SoftFilterOrder[i] : i \in DOMAIN SoftFilterOrder}

\* the soft filters whose trait column the input has
SoftEvaluated == {f \in SoftFilterNames : SoftColumn(f) \in df.cols}

\* the animals whose value for the filter's trait is present and strictly
\* below the threshold
BelowThreshold(f) ==
    {a \in df.idx :
        /\ df.cell[a][SoftColumn(f)] # NaN
        /\ df.cell[a][SoftColumn(f)][1] < SoftThreshold(f)}

\* animals_flagged.get(f, 0)
RecordedFlagged(f) ==
    IF f \in DOMAIN flagged.soft_filter_results.animals_flagged
    THEN flagged.soft_filter_results.animals_flagged[f] ELSE 0

\* C19: apply_soft_filters returns exactly the animals of its input with
\* every existing value unchanged and adds only boolean flag columns, one
\* for each soft filter whose trait column is there; an animal is flagged
\* iff its value is present and strictly below the threshold, and the
\* flagged count recorded for a filter is the number of animals it flagged.
C19_SoftFiltersOnlyFlag ==
    SoftRan =>
        LET out == flagged.filtered_df IN
        /\ out.idx = df.idx
        /\ out.cols = df.cols \cup {SoftFlagColumn(f) : f \in SoftEvaluated}
        /\ \A a \in df.idx, c \in df.cols : out.cell[a][c] = df.cell[a][c]
        /\ \A f \in SoftEvaluated, a \in df.idx :
              /\ out.cell[a][SoftFlagColumn(f)] \in {Num(TRUE), Num(FALSE)}
              /\ out.cell[a][SoftFlagColumn(f)] = Num(TRUE)
                    <=> a \in BelowThreshold(f)
        /\ \A f \in SoftEvaluated :
              RecordedFlagged(f) = Cardinality(BelowThreshold(f))
        /\ DOMAIN flagged.soft_filter_results.animals_flagged \subseteq SoftEvaluated

\* one animal exactly on the 200-day threshold and one with the weight
\* missing stay unflagged beside a flagged one
C19_Witness ==
    /\ SoftRan
    /\ "wt_200d" \in df.cols
    /\ \E a, b \in df.idx :
          /\ df.cell[a]["wt_200d"] \in {NaN, Num(SoftThreshold("min_200d_weight"))}
          /\ flagged.filtered_df.cell[a]["soft_filter_200d"] = Num(FALSE)
          /\ flagged.filtered_df.cell[b]["soft_filter_200d"] = Num(TRUE)
    /\ RecordedFlagged("min_200d_weight") = 1

\* ------------------------------------- an AnalysisConfig after construction
\* the slider positions of the configuration page, in thousandths
SliderValues == {0, 500}

\* values a caller assigns to a threshold field
AssignedValues(f) ==
    CASE f = "min_birth_weight"  -> {30, -10}
      [] f = "max_footrot_score" -> {2, 9}
      [] f = "bse_pass_required" -> {FALSE}

InitAssign ==
    /\ \E n \in 1..MaxAnimals : df = BaseFrame(HardFilterCols, n)
    /\ config \in Thresholds
    /\ edits = 0
    /\ stage = "input"
    /\ filtered = NoFilterRun
    /\ scored = None
    /\ kwargs = None
    /\ raised = ""
    /\ method = "percentile"
    /\ standardized = None
    /\ engines = NoEngines
    /\ returned = <<>>
    /\ NothingElseRan

\* config.<field> = v: the model is a plain BaseModel (not frozen, no
\* validate_assignment), so the attribute is set and no validator runs
AssignField ==
    /\ edits < MaxEdits
    /\ \E f \in {"min_birth_weight", "max_footrot_score", "bse_pass_required"} :
         \E v \in AssignedValues(f) \ {config[f]} :
            config' = [config EXCEPT ![f] = v]
    /\ edits' = edits + 1
    /\ UNCHANGED <<df, stage, outs>>

\* config.weights[cat] = w: the mapping is an ordinary dict
SetWeightItem ==
    /\ edits < MaxEdits
    /\ \E cat \in DOMAIN config.weights :
         \E w \in SliderValues \ {config.weights[cat]} :
            config' = [config EXCEPT !.weights[cat] = w]
    /\ edits' = edits + 1
    /\ UNCHANGED <<df, stage, outs>>

\* the configuration page of the web application: the five sliders are
\* normalised by their total when it is positive and assigned to
\* config.weights; the filter inputs, left at their defaults, are assigned
\* the values the configuration already has
SelectionWeightsPage ==
    /\ edits < MaxEdits
    /\ \E weights \in [SeqToSet(Categories) -> SliderValues] :
          LET total_weight == SumOver(DOMAIN weights, weights)
              normalised == IF total_weight > 0
                            THEN [k \in DOMAIN weights |->
                                     (weights[k] * 1000) \div total_weight]
                            ELSE weights
          IN  config' = [config EXCEPT !.weights = normalised]
    /\ edits' = edits + 1
    /\ UNCHANGED <<df, stage, outs>>

NextAssign ==
    AssignField \/ SetWeightItem \/ SelectionWeightsPage \/ ApplyHardFilters

SpecAssign == InitAssign /\ [][NextAssign]_vars

\* ---------------------------------------------------------------- C21
\* C21: an AnalysisConfig is immutable once constructed: no step (field
\* assignment, in-place change of the weights mapping, a pipeline stage)
\* changes its thresholds or weights, so the weights of an existing
\* configuration always sum to 1.0 within 0.001.
C21_ConfigImmutableOnceConstructed ==
    /\ [][config' = config]_vars
    /\ [](Abs(WeightSum(config.weights) - 1000) <= WeightTolerance)

\* the part of C21 the code keeps: a pipeline stage leaves the
\* configuration it uses as it was
C21_StagesLeaveConfigAlone ==
    [][filtered' # filtered => config' = config]_vars

\* ----------------------------------- AnalysisConfig(**kwargs), thresholds
MaxKwargs == 3

ThresholdFields ==
    {"contemporary_group_window_days", "min_birth_weight", "max_footrot_score",
     "max_dag_score", "min_weaning_weight", "max_micron"}

\* the field defaults of the class body (weights in tenths of a kg, micron
\* in tenths)
FieldDefault(f) ==
    CASE f = "contemporary_group_window_days" -> 30
      [] f = "min_birth_weight"   -> 20
      [] f = "max_footrot_score"  -> 4
      [] f = "max_dag_score"      -> 4
      [] f = "min_weaning_weight" -> 200
      [] f = "max_micron"         -> 250

\* values a caller passes for a threshold
SuppliedValues(f) ==
    CASE f = "contemporary_group_window_days" -> {45, -1}
      [] f = "min_birth_weight"   -> {30, -10}
      [] f = "max_footrot_score"  -> {2, 6}
      [] f = "max_dag_score"      -> {3, -1}
      [] f = "min_weaning_weight" -> {180, -50}
      [] f = "max_micron"         -> {220, 0}

\* AnalysisConfig(**kw) for threshold keywords: each field is declared with
\* a type and a default only (no Field(ge=..., le=...), no validator), so a
\* value of the right type is stored as given
AnalysisConfig(kw) ==
    Return([f \in ThresholdFields |->
               IF f \in DOMAIN kw THEN kw[f] ELSE FieldDefault(f)])

InitConstruct ==
    /\ df = None
    /\ config = None
    /\ edits = 0
    /\ stage = "input"
    /\ filtered = NoFilterRun
    /\ scored = None
    /\ kwargs = <<>>
    /\ raised = ""
    /\ method = "percentile"
    /\ standardized = None
    /\ engines = NoEngines
    /\ returned = <<>>
    /\ NothingElseRan

\* the caller adds one threshold keyword
SupplyThreshold ==
    /\ stage = "input"
    /\ Cardinality(DOMAIN kwargs) < MaxKwargs
    /\ \E f \in ThresholdFields \ DOMAIN kwargs :
         \E v \in SuppliedValues(f) : kwargs' = kwargs @@ (f :> v)
    /\ UNCHANGED <<df, config, edits, stage, filtered, scored, raised, stdVars,
                   engVars, moreVars>>

ConstructAnalysisConfig ==
    /\ stage = "input"
    /\ \E r \in {AnalysisConfig(kwargs)} :
          /\ raised' = r.raise
          /\ config' = r.value
    /\ stage' = "done"
    /\ UNCHANGED <<df, edits, filtered, scored, kwargs, stdVars, engVars, moreVars>>

NextConstruct == SupplyThreshold \/ ConstructAnalysisConfig

SpecConstruct == InitConstruct /\ [][NextConstruct]_vars

\* ---------------------------------------------------------------- C22
\* the range a threshold is meant to lie in
ThresholdInRange(f, v) ==
    CASE f = "contemporary_group_window_days" -> v >= 0
      [] f = "min_birth_weight"   -> v >= 0
      [] f = "max_footrot_score"  -> v >= 0 /\ v <= 5
      [] f = "max_dag_score"      -> v >= 0 /\ v <= 5
      [] f = "min_weaning_weight" -> v >= 0
      [] f = "max_micron"         -> v > 0

\* C22: constructing an AnalysisConfig with an out-of-range threshold
\* (negative min_birth_weight or min_weaning_weight, max_footrot_score or
\* max_dag_score outside 0..5, non-positive max_micron, negative window)
\* fails: no configuration exists afterwards, with the value or without it.
C22_OutOfRangeThresholdFailsConstruction ==
    (stage = "done" /\ \E f \in DOMAIN kwargs : ~ThresholdInRange(f, kwargs[f]))
        => raised # "" /\ config = None

\* the part of C22 the code keeps: a supplied value is never replaced by
\* another one
C22_NeverSilentlyCorrected ==
    (stage = "done" /\ raised = "") =>
        \A f \in DOMAIN kwargs : config[f] = kwargs[f]

\* ------------------------------------------------- SheepData(**kwargs)
\* birth_date is counted in days from date.today(): positive is the future
Sexes == {"Ewe", "Ram", "Wether"}

WeightFields == {"wt_birth", "wt_100d", "wt_200d", "wt_300d"}

SheepFields == {"sex", "birth_date", "footrot_score"} \cup WeightFields

\* Field(None, ge=..., le=...): the declared range of one supplied value
FieldRange(f, v) ==
    CASE f \in WeightFields    -> v >= 0
      [] f = "footrot_score"   -> v >= 0 /\ v <= 5
      [] OTHER                 -> TRUE

\* validate_sex and validate_birth_date
validate_sex(v) == v \in Sexes

validate_birth_date(v) == ~(v > 0)

\* Python truthiness of an Optional[float]: None and 0.0 are false
Truthy(c) == c # NaN /\ c[1] # 0

\* validate_measurement_dates (mode='after'): TRUE when no ValueError
validate_measurement_dates(r) ==
    /\ ~(Truthy(r.wt_100d)
           /\ r.wt_100d[1] < (IF Truthy(r.wt_birth) THEN r.wt_birth[1] ELSE 0))
    /\ ~(Truthy(r.wt_200d) /\ Truthy(r.wt_100d) /\ r.wt_200d[1] < r.wt_100d[1])
    /\ ~(Truthy(r.wt_300d) /\ Truthy(r.wt_200d) /\ r.wt_300d[1] < r.wt_200d[1])

\* SheepData(**kw): the field constraints and field validators first, the
\* model validator only when they all pass; a pydantic ValidationError is a
\* ValueError
SheepData(kw) ==
    IF \E f \in SheepFields : kw[f] # NaN /\ ~FieldRange(f, kw[f][1])
        THEN Raise("ValueError")
    ELSE IF ~validate_sex(kw.sex[1]) \/ ~validate_birth_date(kw.birth_date[1])
        THEN Raise("ValueError")
    ELSE IF ~validate_measurement_dates(kw) THEN Raise("ValueError")
    ELSE Return(kw)

\* a record with the required fields, a birth weight of 4.9 kg and a
\* 200-day weight of 67.0 kg
BaseSheep ==
    [f \in SheepFields |->
        CASE f = "sex"        -> Num("Ewe")
          [] f = "birth_date" -> Num(-300)
          [] f = "wt_birth"   -> Num(49)
          [] f = "wt_200d"    -> Num(670)
          [] OTHER            -> NaN]

SheepValues(f) ==
    CASE f = "sex"           -> {Num("Ram"), Num("Wether"), Num("Invalid")}
      [] f = "birth_date"    -> {Num(0), Num(1)}
      [] f = "wt_birth"      -> {NaN, Num(50), Num(-10)}
      [] f = "wt_100d"       -> {Num(30), Num(250)}
      [] f = "wt_200d"       -> {NaN, Num(200)}
      [] f = "wt_300d"       -> {Num(590), Num(700)}
      [] f = "footrot_score" -> {Num(3), Num(6)}

InitSheep ==
    /\ df = None
    /\ config = None
    /\ edits = 0
    /\ stage = "input"
    /\ filtered = NoFilterRun
    /\ scored = None
    /\ kwargs = BaseSheep
    /\ raised = ""
    /\ method = "percentile"
    /\ standardized = None
    /\ engines = NoEngines
    /\ returned = <<>>
    /\ NothingElseRan

\* the caller's record gets another value in one field
SupplyField ==
    /\ stage = "input"
    /\ edits < MaxEdits
    /\ \E f \in SheepFields :
         \E v \in SheepValues(f) \ {kwargs[f]} :
            kwargs' = [kwargs EXCEPT ![f] = v]
    /\ edits' = edits + 1
    /\ UNCHANGED <<df, config, stage, filtered, scored, raised, stdVars, engVars,
                   moreVars>>

ConstructSheepData ==
    /\ stage = "input"
    /\ sheep' = SheepData(kwargs)
    /\ raised' = sheep'.raise
    /\ stage' = "done"
    /\ UNCHANGED <<df, config, edits, filtered, scored, kwargs, stdVars, engVars,
                   candidates, grouped, flagged, called, steps,
                   presets_dir, presets>>

NextSheep == SupplyField \/ ConstructSheepData

SpecSheep == InitSheep /\ [][NextSheep]_vars

\* ---------------------------------------------------------------- C23
Supplied(f) == kwargs[f] # NaN

EveryTraitInRange ==
    \A f \in SheepFields : Supplied(f) => FieldRange(f, kwargs[f][1])

BelowBirthWeight ==
    /\ Supplied("wt_100d") /\ Supplied("wt_birth")
    /\ kwargs.wt_100d[1] < kwargs.wt_birth[1]

\* C23: SheepData(...) succeeds whenever sex is Ewe, Ram or Wether, the
\* birth date is not in the future and every supplied trait is within its
\* own field's range (the 100-day weight not below the birth weight), as
\* for the test record with wt_200d = 67.0 and wt_300d = 59.0; it fails for
\* a sex outside the enumeration, a future birth date and a 100-day weight
\* below the birth weight.
C23_ValidRecordConstructs ==
    stage = "done" =>
        /\ (kwargs.sex[1] \in Sexes /\ kwargs.birth_date[1] <= 0
              /\ EveryTraitInRange /\ ~BelowBirthWeight) => raised = ""
        /\ (kwargs.sex[1] \notin Sexes \/ kwargs.birth_date[1] > 0
              \/ BelowBirthWeight) => raised # ""

\* the part of C23 the code keeps: the three failures
C23_InvalidRecordFails ==
    stage = "done" =>
        ((kwargs.sex[1] \notin Sexes \/ kwargs.birth_date[1] > 0
            \/ BelowBirthWeight) => raised # "")

\* ------------------------------------------------------- rank_rams runs
RamCols == {"sex", "footrot_score"}

MaxRams == 12

\* the sizes of the runs of equal footrot scores in a flock
RunLengths == {1, 2, 3}

\* a flock of n rams in which g consecutive rams share a footrot score
\* (0, 1, ..., 4 and round again)
RamFlock(n, g) ==
    [cols |-> RamCols, idx |-> 1..n,
     cell |-> [a \in 1..n |->
                [c \in RamCols |->
                    IF c = "footrot_score" THEN Num(((a - 1) \div g) % 5)
                    ELSE Num("Ram")]]]

InitRams ==
    /\ \E n \in (MaxRams - 3)..MaxRams, g \in RunLengths : df = RamFlock(n, g)
    /\ config = DefaultThresholds
    /\ edits = MaxEdits - 1
    /\ stage = "input"
    /\ filtered = NoFilterRun
    /\ scored = None
    /\ kwargs = None
    /\ raised = ""
    /\ method = "percentile"
    /\ standardized = None
    /\ engines = NoEngines
    /\ returned = <<>>
    /\ NothingElseRan

\* rank_rams(df); scored holds the ranked rams and their row order
RankRams ==
    /\ stage = "input"
    /\ \E r \in {rank_rams(df, config)} :
          /\ raised' = r.raise
          /\ scored' = r.value
    /\ stage' = "done"
    /\ UNCHANGED <<df, config, edits, filtered, kwargs, stdVars, engVars, moreVars>>

NextRams == SetCell \/ RankRams

SpecRams == InitRams /\ [][NextRams]_vars

\* ---------------------------------------------------------------- C24
RamsRanked == stage = "done" /\ raised = "" /\ scored # None

FlockRams == {a \in df.idx : df.cell[a]["sex"] = Num("Ram")}

Marked ==
    {a \in scored.frame.idx :
        scored.frame.cell[a]["selection_recommended"] = Num(TRUE)}

Min(x, y) == IF x < y THEN x ELSE y

\* C24: rank_rams marks the top 10 rams: the number of rams with
\* selection_recommended = true is min(10, number of rams), also when rams
\* tie around the tenth position, and every marked ram's composite score
\* is at least that of every unmarked ram.
C24_TopTenRamsMarked ==
    RamsRanked =>
        /\ Cardinality(Marked) = Min(10, Cardinality(FlockRams))
        /\ \A a \in Marked, b \in scored.frame.idx \ Marked :
              ~FracGT(scored.frame.cell[b]["composite_score"],
                      scored.frame.cell[a]["composite_score"])

\* the part of C24 the code keeps: the marked rams are those with fewer
\* than ten rams strictly above them, and none of them scores below an
\* unmarked ram
C24_MarkedAreRankTenOrBetter ==
    RamsRanked =>
        /\ scored.frame.idx = FlockRams
        /\ \A a \in FlockRams :
              a \in Marked <=>
                Cardinality({b \in FlockRams :
                    FracGT(scored.frame.cell[b]["composite_score"],
                           scored.frame.cell[a]["composite_score"])}) < 10
        /\ \A a \in Marked, b \in FlockRams \ Marked :
              ~FracGT(scored.frame.cell[b]["composite_score"],
                      scored.frame.cell[a]["composite_score"])

\* ------------------------------------------- explanations of scored animals
ExplainCols == {"sex", "pregnancy_success", "temperament"}

InitExplain ==
    /\ \E n \in 1..MaxAnimals : df = BaseFrame(ExplainCols, n)
    /\ config = DefaultThresholds
    /\ edits = 0
    /\ stage = "input"
    /\ filtered = NoFilterRun
    /\ scored = None
    /\ kwargs = None
    /\ raised = ""
    /\ method = "percentile"
    /\ standardized = None
    /\ engines = NoEngines
    /\ returned = <<>>
    /\ NothingElseRan

NextExplain == SetCell \/ \E e \in Engines : ScoreAnimals(e)

SpecExplain == InitExplain /\ [][NextExplain]_vars

\* ---------------------------------------------------------------- C25
\* a category score against 0.7 and 0.3, the score in units of 1 / ScoreScale
AtLeastSevenTenths(c) == 10 * c[1] >= 7 * ScoreScale

BelowThreeTenths(c) == 10 * c[1] < 3 * ScoreScale

StrengthNote(cat) == "Strong " \o cat \o " performance"

WeaknessNote(cat) == "Poor " \o cat \o " performance"

\* C25: for every animal and category the explanation has a strength note
\* iff the category score is >= 0.7 (exactly 0.7 is a strength) and a
\* weakness note iff it is < 0.3 (exactly 0.3 is not a weakness); growth,
\* health and reproduction get their recommendation exactly when the score
\* is < 0.3; no category is both a strength and a weakness.
C25_ExplanationThresholds ==
    \A i \in DOMAIN returned :
        \A a \in DOMAIN returned[i].results.scoring_results :
            LET entry == returned[i].results.scoring_results[a]
                strengths == SeqToSet(entry.explanation.strengths)
                weaknesses == SeqToSet(entry.explanation.weaknesses)
                recommendations == SeqToSet(entry.explanation.recommendations)
            IN  \A cat \in SeqToSet(Categories) :
                    LET score == entry.component_scores[cat]
                    IN  /\ StrengthNote(cat) \in strengths
                            <=> AtLeastSevenTenths(score)
                        /\ WeaknessNote(cat) \in weaknesses
                            <=> BelowThreeTenths(score)
                        /\ cat \in {"growth", "health", "reproduction"} =>
                              (LowPerformanceAdvice(cat) \in recommendations
                                 <=> BelowThreeTenths(score))
                        /\ ~(StrengthNote(cat) \in strengths
                               /\ WeaknessNote(cat) \in weaknesses)

\* the part of C25 the code keeps: everything but the score of exactly 0.7
C25_ExplanationThresholdsButSevenTenths ==
    \A i \in DOMAIN returned :
        \A a \in DOMAIN returned[i].results.scoring_results :
            LET entry == returned[i].results.scoring_results[a]
                strengths == SeqToSet(entry.explanation.strengths)
                weaknesses == SeqToSet(entry.explanation.weaknesses)
                recommendations == SeqToSet(entry.explanation.recommendations)
            IN  \A cat \in SeqToSet(Categories) :
                    LET score == entry.component_scores[cat]
                    IN  /\ StrengthNote(cat) \in strengths
                            <=> 10 * score[1] > 7 * ScoreScale
                        /\ WeaknessNote(cat) \in weaknesses
                            <=> BelowThreeTenths(score)
                        /\ cat \in {"growth", "health", "reproduction"} =>
                              (LowPerformanceAdvice(cat) \in recommendations
                                 <=> BelowThreeTenths(score))

\* ---------------------------------------------------------------- C26
Eliminated(r) == r.original_data.idx \ r.filtered_data.idx

CullRecommended(r) ==
    {a \in r.cull_candidates.idx :
        r.cull_candidates.cell[a]["cull_recommended"] = Num(TRUE)}

\* a survivor's value of column c is below the 10th percentile of the
\* survivors' values in frame d
BelowSurvivorsTenth(r, d, a, c) ==
    /\ c \in d.cols
    /\ ~IsNaN(d.cell[a][c])
    /\ ~IsNaN(QuantileTenth(Rows(d, r.filtered_data.idx), c))
    /\ 10 * Val(d.cell[a][c]) < Val(QuantileTenth(Rows(d, r.filtered_data.idx), c))

\* one of the four cull criteria holds for survivor a, the percentiles
\* taken over the survivors
CriterionAmongSurvivors(r, a) ==
    LET raw == r.original_data IN
    \/ "cull_flag" \in raw.cols /\ raw.cell[a]["cull_flag"] = Num(1)
    \/ BelowSurvivorsTenth(r, raw, a, "wt_300d")
    \/ BelowSurvivorsTenth(r, r.scored_data, a, "health_score")
    \/ /\ "weaning_rate" \in raw.cols
       /\ ~IsNaN(raw.cell[a]["weaning_rate"])
       /\ Val(raw.cell[a]["weaning_rate"]) < 5

\* C26: in score_animals the cull identifier works on the hard-filtered
\* population: the cull candidates (and get_cull_recommendations) are
\* survivors of the hard filters, an eliminated animal is never recommended
\* even with its cull flag set, and the 10th percentiles are those of the
\* survivors' values.
C26_CullOnSurvivorsOnly ==
    \A i \in DOMAIN returned :
        LET r == returned[i].results IN
        /\ r.cull_candidates.idx = r.filtered_data.idx
        /\ get_cull_recommendations(r).idx \subseteq r.filtered_data.idx
        /\ CullRecommended(r) \cap Eliminated(r) = {}
        /\ \A a \in r.filtered_data.idx :
              a \in CullRecommended(r) <=> CriterionAmongSurvivors(r, a)

\* a run that eliminated an animal whose cull flag was set, and kept an
\* unrecommended animal whose 300-day weight is below the 10th percentile of
\* the whole population
C26_Witness ==
    \E i \in DOMAIN returned :
        LET r == returned[i].results
            raw == r.original_data
        IN  /\ "cull_flag" \in raw.cols /\ "wt_300d" \in raw.cols
            /\ \E a \in r.filtered_data.idx, b \in Eliminated(r) :
                  /\ a \notin CullRecommended(r)
                  /\ ~IsNaN(raw.cell[a]["wt_300d"])
                  /\ ~IsNaN(QuantileTenth(raw, "wt_300d"))
                  /\ 10 * Val(raw.cell[a]["wt_300d"])
                        < Val(QuantileTenth(raw, "wt_300d"))

\* a run that eliminated an animal whose cull flag was set
C26_FlaggedAnimalEliminated ==
    \E i \in DOMAIN returned :
        LET r == returned[i].results
        IN  /\ "cull_flag" \in r.original_data.cols
            /\ \E b \in Eliminated(r) : r.original_data.cell[b]["cull_flag"] = Num(1)

\* --------------------------------------------------------- ConfigPresets
\* DEFAULT_PRESETS: each preset is the flat mapping of its category weights
\* (in thousandths)
DEFAULT_PRESETS ==
    [balanced |-> [growth |-> 300, wool |-> 200, reproduction |-> 200,
                   health |-> 200, temperament |-> 100],
     meat     |-> [growth |-> 500, wool |-> 100, reproduction |-> 200,
                   health |-> 150, temperament |-> 50],
     wool     |-> [growth |-> 200, wool |-> 400, reproduction |-> 200,
                   health |-> 150, temperament |-> 50],
     worm     |-> [growth |-> 250, wool |-> 150, reproduction |-> 200,
                   health |-> 350, temperament |-> 50]]

MaxFiles == 2

FileStems == {"balanced", "custom"}

\* what a preset file may hold: the flat form of DEFAULT_PRESETS, a weights
\* key, a weights key beside a threshold, weights that do not sum to 1.0
FileContents ==
    {DEFAULT_PRESETS.balanced,
     [weights |-> DefaultWeights],
     [weights |-> CustomWeights, min_birth_weight |-> 30],
     [weights |-> [growth |-> 500, wool |-> 300]]}

PresetNames == {"balanced", "meat", "wool", "worm", "custom", "unknown"}

\* dict.get(key, default)
Get(data, key, default) == IF key \in DOMAIN data THEN data[key] ELSE default

\* _load_presets: every YAML file of the directory, the defaults only when
\* there is none
load_presets(dir) == IF DOMAIN dir # {} THEN dir ELSE DEFAULT_PRESETS

\* get_preset
get_preset(loaded, name) ==
    IF name \notin DOMAIN loaded
    THEN [raise |-> "ValueError", value |-> None,
          message |-> [text |-> "Preset not found", available |-> DOMAIN loaded]]
    ELSE [raise |-> "", value |-> loaded[name], message |-> None]

\* create_config_from_preset: AnalysisConfig(**config_data) with
\* weights = preset_data.get('weights', {}), which the field validator checks
create_config_from_preset(loaded, name, above) ==
    LET preset == get_preset(loaded, name)
        preset_data == preset.value
        weights == Get(preset_data, "weights", <<>>)
    IN  IF preset.raise # "" THEN preset
        ELSE IF validate_weights_sum(weights, above) # ""
        THEN [raise |-> "ValueError", value |-> None,
              message |-> [text |-> "Weights must sum to 1.0"]]
        ELSE [raise |-> "", message |-> None,
              value |->
                [min_birth_weight |-> Get(preset_data, "min_birth_weight", 20),
                 max_footrot_score |-> Get(preset_data, "max_footrot_score", 4),
                 max_dag_score |-> Get(preset_data, "max_dag_score", 4),
                 min_weaning_weight |-> Get(preset_data, "min_weaning_weight", 200),
                 max_micron |-> Get(preset_data, "max_micron", 250),
                 bse_pass_required |-> Get(preset_data, "bse_pass_required", TRUE),
                 weights |-> weights]]

InitPreset ==
    /\ df = None
    /\ config = None
    /\ edits = 0
    /\ stage = "input"
    /\ filtered = NoFilterRun
    /\ scored = None
    /\ kwargs = None
    /\ raised = ""
    /\ method = "percentile"
    /\ standardized = None
    /\ engines = NoEngines
    /\ returned = <<>>
    /\ NothingElseRan

\* a YAML file is put into the presets directory
WritePresetFile ==
    /\ presets = None
    /\ Cardinality(DOMAIN presets_dir) < MaxFiles
    /\ \E stem \in FileStems \ DOMAIN presets_dir, data \in FileContents :
          presets_dir' = presets_dir @@ (stem :> data)
    /\ UNCHANGED <<df, config, edits, stage, filtered, scored, kwargs, raised,
                   stdVars, engVars, candidates, grouped, flagged, called, sheep,
                   steps, presets>>

\* ConfigPresets(): __init__ runs _load_presets
ConstructConfigPresets ==
    /\ presets = None
    /\ presets' = load_presets(presets_dir)
    /\ UNCHANGED <<df, config, edits, stage, filtered, scored, kwargs, raised,
                   stdVars, engVars, candidates, grouped, flagged, called, sheep,
                   steps, presets_dir>>

CreateConfigFromPreset(name) ==
    /\ presets # None
    /\ stage = "input"
    /\ \E above \in BOOLEAN :
         \E r \in {create_config_from_preset(presets, name, above)} :
            /\ called' = [name |-> name, create_config_from_preset |-> r]
            /\ config' = r.value
            /\ raised' = r.raise
    /\ stage' = "done"
    /\ UNCHANGED <<df, edits, filtered, scored, kwargs, stdVars, engVars,
                   candidates, grouped, flagged, sheep, steps, presets_dir, presets>>

NextPreset ==
    \/ WritePresetFile
    \/ ConstructConfigPresets
    \/ \E name \in PresetNames : CreateConfigFromPreset(name)

SpecPreset == InitPreset /\ [][NextPreset]_vars

\* ---------------------------------------------------------------- C29
NoPresetFiles == DOMAIN presets_dir = {}

\* C29: with no preset files present, create_config_from_preset succeeds
\* for balanced, meat, wool and worm and returns a configuration whose
\* category weights are that preset's weights, summing to 1.0; for an
\* unknown name it fails with an error that names the available presets.
C29_BuiltInPresetsGiveTheirWeights ==
    (stage = "done" /\ NoPresetFiles) =>
        LET outcome == called.create_config_from_preset IN
        IF called.name \in DOMAIN DEFAULT_PRESETS
        THEN /\ outcome.raise = ""
             /\ config.weights = DEFAULT_PRESETS[called.name]
             /\ WeightSum(config.weights) = 1000
        ELSE /\ outcome.raise = "ValueError"
             /\ outcome.message.available = DOMAIN DEFAULT_PRESETS

\* the part of C29 the code keeps: an unknown name fails with an error that
\* names the presets that were loaded
C29_UnknownPresetNamesTheAvailable ==
    (stage = "done" /\ called.name \notin DOMAIN presets) =>
        /\ raised = "ValueError"
        /\ called.create_config_from_preset.message.available = DOMAIN presets
        /\ config = None

\* ------------------------------------------------------------ cli.analyze
\* the calls score_animals makes, in its order; it stops at a raising call
ScoreAnimalsCalls(outcome) ==
    <<"apply_hard_filters", "apply_soft_filters", "calculate_scores", "rank_rams">>
    \o (IF outcome.raise # "" THEN <<>>
        ELSE <<"identify_cull_candidates", "create_scoring_results",
               "get_filter_summary", "get_ranking_summary">>)

PipelineCols == {"sex", "wt_birth", "footrot_score"}

\* the presets directory of an installation: empty, or with a balanced.yaml
\* that has a weights key
Installations ==
    {<<>>,
     "balanced" :> [weights |-> DefaultWeights],
     "balanced" :> [weights |-> CustomWeights, min_birth_weight |-> 30]}

InitPipeline ==
    /\ \E n \in 1..MaxAnimals : df = BaseFrame(PipelineCols, n)
    /\ config = None
    /\ edits = 0
    /\ stage = "input"
    /\ filtered = NoFilterRun
    /\ scored = None
    /\ kwargs = None
    /\ raised = ""
    /\ method = "percentile"
    /\ standardized = None
    /\ engines = NoEngines
    /\ returned = <<>>
    /\ candidates = None
    /\ grouped = None
    /\ flagged = None
    /\ called = None
    /\ sheep = None
    /\ steps = <<>>
    /\ presets_dir \in Installations
    /\ presets = None

\* analyze: the records as loaded, ConfigPresets(), create_config_from_preset,
\* ScoringEngine(config).score_animals(df), export_results and
\* get_summary_statistics; any exception ends the command (typer.Exit)
Analyze(preset) ==
    /\ stage = "input"
    /\ presets' = load_presets(presets_dir)
    /\ \E above \in BOOLEAN :
        \E made \in {create_config_from_preset(presets', preset, above)} :
          IF made.raise # ""
          THEN /\ raised' = made.raise
               /\ steps' = <<"ConfigPresets", "create_config_from_preset">>
               /\ UNCHANGED <<config, engines, returned, df, called>>
          ELSE \E r \in {score_animals(df, made.value)} :
               /\ config' = made.value
               /\ raised' = r.raise
               /\ IF r.raise # ""
                  THEN /\ steps' = <<"ConfigPresets", "create_config_from_preset">>
                                   \o ScoreAnimalsCalls(r)
                       /\ UNCHANGED <<engines, returned, df, called>>
                  ELSE /\ steps' = <<"ConfigPresets", "create_config_from_preset">>
                                   \o ScoreAnimalsCalls(r)
                                   \o <<"export_results", "get_summary_statistics">>
                       /\ engines' = [engines EXCEPT !["one"] = r.value]
                       /\ returned' = Append(returned,
                                        [engine |-> "one", results |-> r.value])
                       /\ df' = r.value.original_data
                       /\ called' =
                            [export_results |-> export_results(r.value),
                             get_summary_statistics |->
                                get_summary_statistics(r.value)]
    /\ stage' = "done"
    /\ UNCHANGED <<edits, filtered, scored, kwargs, stdVars, candidates, grouped,
                   flagged, sheep, presets_dir>>

NextPipeline == SetCell \/ \E preset \in {"balanced", "meat"} : Analyze(preset)

SpecPipeline == InitPipeline /\ [][NextPipeline]_vars

\* ---------------------------------------------------------------- C27
\* call a was made, and before call b
CalledBefore(a, b) ==
    \E i, j \in DOMAIN steps : i < j /\ steps[i] = a /\ steps[j] = b

PipelineCompleted == stage = "done" /\ raised = "" /\ steps # <<>>

\* C27: a full pipeline run executes contemporary grouping, then trait
\* standardization, then hard filtering, then scoring and ranking of the
\* survivors, then cull identification: nothing is scored before the hard
\* filters ran, scoring never sees an eliminated animal, and the scored
\* records carry their cohort and their standardized values.
C27_PipelineStagesInOrder ==
    PipelineCompleted =>
        /\ CalledBefore("create_contemporary_groups", "standardize_data")
        /\ CalledBefore("standardize_data", "apply_hard_filters")
        /\ CalledBefore("apply_hard_filters", "calculate_scores")
        /\ CalledBefore("calculate_scores", "identify_cull_candidates")
        /\ engines["one"].scored_data.idx = engines["one"].filtered_data.idx
        /\ "contemporary_group" \in engines["one"].scored_data.cols

\* the part of C27 the code keeps: hard filtering, then scoring and ranking,
\* then cull identification, and only survivors are scored
C27_FilteredThenScoredThenCulled ==
    PipelineCompleted =>
        /\ CalledBefore("apply_hard_filters", "calculate_scores")
        /\ CalledBefore("calculate_scores", "rank_rams")
        /\ CalledBefore("rank_rams", "identify_cull_candidates")
        /\ \A i \in DOMAIN steps :
              steps[i] \in {"calculate_scores", "rank_rams"} =>
                 \E j \in 1..(i - 1) : steps[j] = "apply_hard_filters"
        /\ engines["one"].scored_data.idx = engines["one"].filtered_data.idx
        /\ DOMAIN engines["one"].scoring_results = engines["one"].filtered_data.idx

\* the scored records are the loaded ones: no cohort column, and every trait
\* of a scored animal has the value it was loaded with
C27_ScoredRecordsAreTheLoadedOnes ==
    PipelineCompleted =>
        /\ "contemporary_group" \notin engines["one"].scored_data.cols
        /\ \A a \in engines["one"].scored_data.idx : \A c \in PipelineCols :
              engines["one"].scored_data.cell[a][c] = df.cell[a][c]

\* a run in which an animal was eliminated and another scored
C27_SomeEliminatedSomeScored ==
    /\ PipelineCompleted
    /\ engines["one"].scored_data.idx # {}
    /\ engines["one"].scored_data.idx # df.idx

\* ------------------------------------------------ a session of an engine
SessionCols == {"sex", "footrot_score", "temperament"}

InitSession ==
    /\ \E n \in 1..MaxAnimals : df = BaseFrame(SessionCols, n)
    /\ config = DefaultThresholds
    /\ edits = 0
    /\ stage = "input"
    /\ filtered = NoFilterRun
    /\ scored = None
    /\ kwargs = None
    /\ raised = ""
    /\ method = "percentile"
    /\ standardized = None
    /\ engines = NoEngines
    /\ returned = <<>>
    /\ NothingElseRan

\* between two runs the caller's records change
ChangeRecords ==
    /\ stage = "done"
    /\ called = None
    /\ edits < MaxEdits
    /\ \E a \in df.idx, c \in df.cols :
         \E v \in EditValues(c) \ {df.cell[a][c]} :
            df' = [df EXCEPT !.cell[a][c] = v]
    /\ edits' = edits + 1
    /\ UNCHANGED <<config, stage, outs>>

\* one engine, run and asked in any order
NextSession ==
    \/ SetCell
    \/ ChangeRecords
    \/ ScoreAnimals("one")
    \/ CallAccessors("one")

SpecSession == InitSession /\ [][NextSession]_vars

\* ---------------------------------------------------------------- C28
\* the runs of engine e among the given ones, oldest first
RECURSIVE RunsAmong(_, _)
RunsAmong(e, runs) ==
    IF runs = <<>> THEN <<>>
    ELSE (IF runs[1].engine = e THEN <<runs[1]>> ELSE <<>>)
         \o RunsAmong(e, Tail(runs))

\* the runs of the asked engine that preceded the accessor calls
RunsBeforeCall == RunsAmong(called.engine, SubSeq(returned, 1, called.after))

\* the first n entries of a sequence
FirstRows(seq, n) == SubSeq(seq, 1, Min(n, Len(seq)))

\* C28: before an engine's first score_animals call get_top_rams and
\* get_cull_recommendations return an empty table, get_animal_details
\* returns None, get_summary_statistics and export_results return an empty
\* mapping and validate_scoring returns the one issue "No scoring results
\* available", none raising; after one or more calls every accessor reflects
\* only the most recent run, get_cull_recommendations returns exactly the
\* animals with cull_recommended true, and get_animal_details(id) returns a
\* result exactly for the ids that survived the hard filters.
C28_AccessorsFollowTheLatestRun ==
    called # None =>
        LET runs == RunsBeforeCall IN
        IF runs = <<>>
        THEN /\ called.get_top_rams = Return([frame |-> EmptyFrame, order |-> <<>>])
             /\ called.get_cull_recommendations = EmptyFrame
             /\ \A id \in AnimalIds : called.get_animal_details[id] = None
             /\ called.get_summary_statistics = Return(<<>>)
             /\ called.export_results = Return({})
             /\ called.validate_scoring = Return(<<"No scoring results available">>)
        ELSE LET latest == runs[Len(runs)].results
                 summary == called.get_summary_statistics.value
             IN
             /\ called.get_top_rams.raise = ""
             /\ called.get_top_rams.value.order = FirstRows(latest.ranked_rams.order, 10)
             /\ called.get_cull_recommendations.idx = CullRecommended(latest)
             /\ \A a \in called.get_cull_recommendations.idx :
                   called.get_cull_recommendations.cell[a]
                      = latest.cull_candidates.cell[a]
             /\ \A id \in AnimalIds :
                   /\ called.get_animal_details[id] # None
                         <=> id \in latest.filtered_data.idx
                   /\ id \in latest.filtered_data.idx =>
                         /\ called.get_animal_details[id].animal_id = id
                         /\ called.get_animal_details[id].final_score
                               = latest.scored_data.cell[id]["composite_score"]
             /\ called.get_summary_statistics.raise = ""
             /\ summary.total_animals_processed
                   = Cardinality(latest.original_data.idx)
             /\ summary.animals_after_hard_filters
                   = Cardinality(latest.filtered_data.idx)
             /\ summary.total_rams_ranked = Len(latest.ranked_rams.order)
             /\ summary.cull_recommendations = Cardinality(CullRecommended(latest))
             /\ called.validate_scoring.raise = ""
             /\ "No scoring results available"
                   \notin SeqToSet(called.validate_scoring.value)
             /\ called.export_results.raise = ""

\* the accessors were called on an engine that ran twice, on records that
\* changed in between: the second run eliminated an animal the first had
\* kept and recommended for culling
C28_Witness ==
    /\ called # None
    /\ LET runs == RunsBeforeCall IN
       /\ Len(runs) = 2
       /\ runs[1].results.filtered_data.idx # runs[2].results.filtered_data.idx
       /\ runs[2].results.filtered_data.idx # {}
       /\ CullRecommended(runs[1].results) # {}
       /\ CullRecommended(runs[2].results) # CullRecommended(runs[1].results)

\* the accessors were called before the engine's first run
C28_WitnessBeforeFirstRun ==
    /\ called # None
    /\ called.after = 0
    /\ returned # <<>>

\* ---------------------------------------------------------------- C30
\* the declared ranges of the health and temperament fields (SheepData)
InDeclaredRange(c, v) ==
    CASE c = "temperament"   -> IsNaN(v) \/ Val(v) \in 1..5
      [] c = "footrot_score" -> IsNaN(v) \/ Val(v) \in 0..5
      [] c = "dag_score"     -> IsNaN(v) \/ Val(v) \in 0..5
      [] OTHER               -> TRUE

ValidRecords(d) ==
    \A a \in d.idx : \A c \in d.cols : InDeclaredRange(c, d.cell[a][c])

\* a composite <<n, w>> is n / w in units of 1 / ScoreScale
CompositeInUnitRange(composite) ==
    composite[1] >= 0 /\ composite[1] <= ScoreScale * composite[2]

\* the accessors were called after a run over valid records
ValidRunAsked ==
    /\ called # None
    /\ HasResults(called.results)
    /\ ValidRecords(called.results.original_data)

\* C30: after a score_animals run over valid records (temperament 1..5,
\* footrot and dag 0..5) every composite score lies in [0, 1] and the
\* hard-filter survivors are no more than the input animals, so
\* validate_scoring reports no issue; retention_rate is survivors / input
\* animals x 100.
C30_ValidRunHasNoIssue ==
    ValidRunAsked =>
        LET sr == called.results
            kept == Cardinality(sr.filtered_data.idx)
            total == Cardinality(sr.original_data.idx)
        IN  /\ \A a \in sr.scored_data.idx :
                  CompositeInUnitRange(sr.scored_data.cell[a]["composite_score"])
            /\ kept <= total
            /\ called.validate_scoring = Return(<<>>)
            /\ called.get_summary_statistics.value.retention_rate
                  = <<100 * kept, total>>

\* the part of C30 the code keeps: the survivors are a subset of the input,
\* retention_rate is survivors / input x 100, and the only issue
\* validate_scoring can report is the composite range
C30_SurvivorsAndRetention ==
    ValidRunAsked =>
        LET sr == called.results
            kept == Cardinality(sr.filtered_data.idx)
            total == Cardinality(sr.original_data.idx)
        IN  /\ sr.filtered_data.idx \subseteq sr.original_data.idx
            /\ called.get_summary_statistics.value.retention_rate
                  = <<100 * kept, total>>
            /\ called.validate_scoring.raise = ""
            /\ SeqToSet(called.validate_scoring.value)
                  \subseteq {"Composite scores outside expected range [0, 1]"}
            /\ (called.validate_scoring.value # <<>>)
                  <=> \E a \in sr.scored_data.idx :
                        ~CompositeInUnitRange(
                            sr.scored_data.cell[a]["composite_score"])

====
